---- MODULE Spec2Model ----
(***************************************************************************)
(* State-machine model of the batch conversion scheduler of                *)
(* gui/core/batch_processor.py: BatchTask, BatchStatistics, the priority   *)
(* queue (queue.PriorityQueue over heapq) and BatchProcessor with its      *)
(* dispatch thread, thread-pool executor, future monitor threads and       *)
(* retry timer threads, and of the EventBus of gui/core/events.py it       *)
(* notifies.  The thread-pool strategy (conversion_func,                   *)
(* use_processes = False) is modelled.  FileFilter and add_files of the    *)
(* same module and the StateManager of gui/core/state.py are modelled as   *)
(* the functions they compute, each with a specification that calls it.    *)
(*                                                                         *)
(* Threads share the processor's fields without locks, so every thread is  *)
(* a process of the model with its own position, and an operation that     *)
(* publishes a task to another thread before it finishes is split at the   *)
(* publication point.                                                      *)
(***************************************************************************)
EXTENDS Integers, Sequences, FiniteSets, TLC

\* ---------------------------------------------------------------- bounds
\* Tasks created by add_task in the lifecycle specifications.
MaxTasks == 2
\* Tasks created by add_task in the queue-ordering specification.
MaxOrderTasks == 4
\* Largest max_retries / failure plan drawn in the retry specification.
MaxPlan == 2
\* BatchProcessor(max_workers=...): worker threads of the pool.
MaxWorkers == 1
\* Tasks created by add_task in the admission specification.
MaxAdmitTasks == 3
\* Tasks created by add_task in the batch specification.
MaxBatchTasks == 2
\* BatchProcessor(max_workers=...) in the batch specification.
BatchWorkers == 2
\* Tasks created by add_task in the notification specification.
MaxEventTasks == 2
\* Longest list of paths given to add_files.
MaxPaths == 2
\* Events emitted in the subscription specification.
MaxEmits == 1
\* update_state calls in the undo specification: one more than the history holds.
MaxUpdates == 51
\* Tasks created by add_task in the retry-limit specification.
MaxRetryTasks == 1
\* add_task(max_retries=...) in the retry-limit specification.
MaxRetries == 1
\* update_state calls of a run that pick their updater freely; the later ones
\* apply the updater that moves the theme on by one.
MaxChoices == 2

\* -------------------------------------------------------- program constants
\* TaskPriority values.
LOW == 0
NORMAL == 1
HIGH == 2
URGENT == 3

\* TaskStatus members.
TaskStatus ==
  {"PENDING", "QUEUED", "PROCESSING", "COMPLETED", "FAILED", "CANCELLED", "RETRYING"}

\* Error texts.  A conversion failure's message names the attempt it came from.
NoError == <<>>
ErrDuplicate == <<"Duplicate file">>
ErrTaskCancelled == <<"Task cancelled">>
ErrFutureCancelled == <<"CancelledError">>
ErrTimeout == <<"TimeoutError">>
ErrNoConversionFunc == <<"No conversion function provided">>
ConvError(n) == <<"conversion failed", n>>

\* A callback plan is the number of leading attempts that fail.  AlwaysFail fails
\* every attempt a task with max_retries <= MaxPlan can get.
AlwaysFail == MaxPlan + 1

VARIABLES
  clock,       \* last values read from the clocks: [ms |-> time.time()*1000, us |-> datetime.now()]
  task,        \* every BatchTask object created, in creation order
  conv,        \* per task object: the conversion callback's behaviour and its calls so far
  tasks,       \* BatchProcessor.tasks: task_id -> object index (0: no entry)
  task_queue,  \* BatchProcessor.task_queue: the heap array of queue.PriorityQueue
  futures,     \* BatchProcessor.futures: task_id -> object whose Future it holds (0: no entry)
  fut,         \* per task object: its Future in the executor and its monitor thread
  timers,      \* the requeue_after_delay threads asleep: [task, delay in seconds]
  statistics,  \* BatchProcessor.statistics
  duplicate_hashes, \* BatchProcessor.duplicate_hashes
  flags,       \* running, is_paused, is_cancelled, pause_event
  wl,          \* the dispatch thread (_worker_loop): position and popped task
  caller,      \* the thread calling the public operations: position and task in hand
  event_bus,   \* the EventBus given to the processor, with what its subscribers received
  local,       \* values held by monitor and retry-timer threads between two of their steps
  call,        \* the last call whose outcome is observed: its arguments, what it returned or raised
  state_manager, \* the StateManager of gui/core/state.py: _state, _history and the objects they refer to
  conversion_func, \* BatchProcessor.conversion_func: TRUE when a callback was given, FALSE for None
  hist         \* observations about the run, read only by the properties

vars == <<clock, task, conv, tasks, task_queue, futures, fut, timers, statistics,
          duplicate_hashes, flags, wl, caller, event_bus, local, call, state_manager,
          conversion_func, hist>>

\* Task identifiers the clock can produce for MaxOrderTasks tasks.
TaskIds == 1..MaxOrderTasks

Objs == 1..Len(task)

\* ------------------------------------------------------- priority queue
\* BatchTask.__lt__: higher priority first, then earlier created_at.
LtCreatedAtOnly(tt, a, b) == tt[a].created_at < tt[b].created_at

LtPriorityAscending(tt, a, b) ==
  IF tt[a].priority # tt[b].priority
  THEN tt[a].priority < tt[b].priority
  ELSE tt[a].created_at < tt[b].created_at

Lt(tt, a, b) ==
  IF tt[a].priority # tt[b].priority
  THEN tt[a].priority > tt[b].priority
  ELSE tt[a].created_at < tt[b].created_at

\* heapq._siftdown(heap, startpos, pos), positions counted from 1.
RECURSIVE SiftDown(_, _, _, _, _)
SiftDown(tt, heap, startpos, pos, newitem) ==
  IF pos > startpos /\ Lt(tt, newitem, heap[pos \div 2])
  THEN SiftDown(tt, [heap EXCEPT ![pos] = heap[pos \div 2]], startpos, pos \div 2, newitem)
  ELSE [heap EXCEPT ![pos] = newitem]

\* heapq._siftup(heap, pos): bubble the smaller child up to a leaf, then sift down.
RECURSIVE SiftUp(_, _, _, _, _)
SiftUp(tt, heap, startpos, pos, newitem) ==
  LET childpos == 2 * pos
      rightpos == childpos + 1
      c == IF rightpos <= Len(heap) /\ ~Lt(tt, heap[childpos], heap[rightpos])
           THEN rightpos ELSE childpos
  IN IF childpos <= Len(heap)
     THEN SiftUp(tt, [heap EXCEPT ![pos] = heap[c]], startpos, c, newitem)
     ELSE SiftDown(tt, [heap EXCEPT ![pos] = newitem], startpos, pos, newitem)

\* queue.PriorityQueue.put: heapq.heappush.
HeapPush(tt, heap, item) ==
  SiftDown(tt, Append(heap, item), 1, Len(heap) + 1, item)

\* queue.PriorityQueue.get: heapq.heappop, as [item, heap].
HeapPop(tt, heap) ==
  LET lastelt == heap[Len(heap)]
      rest == SubSeq(heap, 1, Len(heap) - 1)
  IN IF rest = <<>>
     THEN [item |-> lastelt, heap |-> <<>>]
     ELSE [item |-> rest[1], heap |-> SiftUp(tt, [rest EXCEPT ![1] = lastelt], 1, 1, lastelt)]

InQueue(o) == \E i \in 1..Len(task_queue) : task_queue[i] = o

\* get_task(task_id): the task object registered under the id, None as 0.
get_task(id) == tasks[id]

\* get_all_tasks(): the objects that are values of the task table.
get_all_tasks == {tasks[id] : id \in {i \in TaskIds : tasks[i] # 0}}

\* ------------------------------------------------------------ statistics
\* BatchStatistics(): start_time is None (FALSE) or a datetime (TRUE).
NewStatistics ==
  [total_tasks |-> 0, completed_tasks |-> 0, failed_tasks |-> 0, cancelled_tasks |-> 0,
   retry_count |-> 0, start_time |-> FALSE, tasks_by_status |-> [s \in TaskStatus |-> 0]]

\* BatchStatistics.success_rate, in whole percent.
success_rate(st) ==
  IF st.total_tasks = 0 THEN 0 ELSE (st.completed_tasks * 100) \div st.total_tasks

\* BatchStatistics.progress_percentage, in whole percent.
progress_percentage(st) ==
  IF st.total_tasks = 0 THEN 0 ELSE (st.completed_tasks * 100) \div st.total_tasks

Bucket(tbs, s, d) == [tbs EXCEPT ![s] = @ + d]

\* max(0, tasks_by_status[PROCESSING] - 1) of the monitor's exception path.
BucketFloor(tbs, s) == [tbs EXCEPT ![s] = IF @ - 1 < 0 THEN 0 ELSE @ - 1]

\* -------------------------------------------------------------- event bus
\* EventType members for conversions.
CONVERSION_STARTED == "conversion.started"
CONVERSION_COMPLETED == "conversion.completed"
CONVERSION_FAILED == "conversion.failed"
CONVERSION_CANCELLED == "conversion.cancelled"

EventTypes ==
  {CONVERSION_STARTED, CONVERSION_COMPLETED, CONVERSION_FAILED, CONVERSION_CANCELLED}

\* EventBus._max_history.
MaxHistory == 1000

\* Event(event_type, data).
Event(type, data) == [event_type |-> type, data |-> data]

\* A subscriber callback: its name and whether it raises an Exception when called.
Subscriber(name, raises) == [name |-> name, raises |-> raises]

\* An EventBus after construction, enable()/disable() and subscribe() calls.
\* received is the subscribers' side: every call of a callback, in order.
\* escaped tells whether the last emit ended by raising to its caller.
NewEventBus(enabled, subscribers, global_subscribers) ==
  [enabled |-> enabled, subscribers |-> subscribers,
   global_subscribers |-> global_subscribers, event_history |-> <<>>,
   received |-> <<>>, escaped |-> FALSE]

EscapesIfRaised(sub) == sub.raises

\* try: callback(event) / except Exception: whether the exception of the
\* callback leaves the try statement.
Escapes(sub) == FALSE

\* for callback in subscribers: the calls made from position i on, added to acc.
RECURSIVE Notify(_, _, _, _)
Notify(subs, i, event, acc) ==
  IF i > Len(subs) \/ acc.escaped
  THEN acc
  ELSE Notify(subs, i + 1, event,
              [received |-> Append(acc.received, [name |-> subs[i].name, event |-> event]),
               escaped |-> Escapes(subs[i])])

\* EventBus.emit(event), as the bus it leaves.
Emit(bus, event) ==
  IF ~bus.enabled
  THEN [bus EXCEPT !.escaped = FALSE]
  ELSE LET appended == Append(bus.event_history, event)
           specific == Notify(bus.subscribers[event.event_type], 1, event,
                              [received |-> bus.received, escaped |-> FALSE])
           all == Notify(bus.global_subscribers, 1, event, specific)
       IN [bus EXCEPT
             !.event_history = IF Len(appended) > MaxHistory THEN Tail(appended) ELSE appended,
             !.received = all.received,
             !.escaped = all.escaped]

\* callback in a list of callbacks.
In(cb, subs) == \E i \in 1..Len(subs) : subs[i] = cb

\* list.remove(callback): the first occurrence is removed.
Remove(subs, cb) ==
  LET i == CHOOSE k \in 1..Len(subs) : subs[k] = cb /\ \A j \in 1..(k - 1) : subs[j] # cb
  IN SubSeq(subs, 1, i - 1) \o SubSeq(subs, i + 1, Len(subs))

\* EventBus.subscribe(event_type, callback, global_subscriber), as the bus it
\* leaves and the exception it raises, None when it returns.
SubscribeValues(bus, event_type, cb, global_subscriber) ==
  IF global_subscriber
  THEN IF In(cb, bus.global_subscribers)
       THEN [bus |-> bus, raises |-> <<"ValueError">>]
       ELSE [bus |-> [bus EXCEPT !.global_subscribers = Append(@, cb)], raises |-> <<>>]
  ELSE IF In(cb, bus.subscribers[event_type])
       THEN [bus |-> bus, raises |-> <<"ValueError">>]
       ELSE [bus |-> [bus EXCEPT !.subscribers[event_type] = Append(@, cb)], raises |-> <<>>]

\* EventBus.unsubscribe(event_type, callback), event_type None (<<>>) for the
\* global subscribers, as the bus it leaves.
UnsubscribeValues(bus, event_type, cb) ==
  IF event_type = <<>>
  THEN IF In(cb, bus.global_subscribers)
       THEN [bus EXCEPT !.global_subscribers = Remove(@, cb)] ELSE bus
  ELSE IF In(cb, bus.subscribers[event_type[1]])
       THEN [bus EXCEPT !.subscribers[event_type[1]] = Remove(@, cb)] ELSE bus

\* ----------------------------------------------------------- StateManager
\* StateManager._max_history.
StateMaxHistory == 50

\* AppState values: the theme stands for the fields an updater can set.
Themes == {"default", "dark", "light"}

AppState(theme) == [theme |-> theme]

\* The updater that sets the theme that follows the current one.
NextTheme(theme) ==
  CASE theme = "default" -> "dark"
    [] theme = "dark" -> "light"
    [] OTHER -> "default"

\* Objects are referred to by identity: objects maps each live identity to the
\* object's value.  An identity means nothing beyond being equal to itself or
\* not, so after each operation the objects nothing refers to any more are
\* dropped and the others renumbered in the order history, state refers to them.
\* InOrder(refs, lo, hi) is the identities refs[lo..hi] refers to, each once, in
\* the order of its first reference; the two halves are ordered apart and joined.
RECURSIVE InOrder(_, _, _)
InOrder(refs, lo, hi) ==
  IF lo > hi THEN <<>>
  ELSE IF lo = hi THEN <<refs[lo]>>
  ELSE LET mid == (lo + hi) \div 2
           left == InOrder(refs, lo, mid)
           right == InOrder(refs, mid + 1, hi)
       IN left \o SelectSeq(right, LAMBDA r : \A k \in 1..Len(left) : left[k] # r)

Renumbered(objects, state, history, order) ==
  [objects |-> [r \in 1..Len(order) |-> objects[order[r]]],
   state |-> CHOOSE r \in 1..Len(order) : order[r] = state,
   history |-> [i \in 1..Len(history) |->
                  CHOOSE r \in 1..Len(order) : order[r] = history[i]]]

Compact(objects, state, history) ==
  Renumbered(objects, state, history, InOrder(Append(history, state), 1, Len(history) + 1))

\* self._history.append(self._state): the object itself, not a copy of it.
SameObject(objects, id) == [objects |-> objects, ref |-> id]

\* copy.deepcopy(object id): a new object of equal value, as [objects, ref].
DeepCopy(objects, id) ==
  LET new == CHOOSE n \in 1..(Cardinality(DOMAIN objects) + 1) : n \notin DOMAIN objects
  IN [objects |-> (new :> objects[id]) @@ objects, ref |-> new]

\* StateManager(initial_state).
NewStateManager(initial_state) ==
  [constructed |-> TRUE, objects |-> <<initial_state>>, state |-> 1, history |-> <<>>]

\* update_state(updater), the updater setting the theme.
update_state(sm, theme) ==
  LET copy == DeepCopy(sm.objects, sm.state)
      appended == Append(sm.history, copy.ref)
      history == IF Len(appended) > StateMaxHistory THEN Tail(appended) ELSE appended
      updated == [copy.objects EXCEPT ![sm.state].theme = theme]
      c == Compact(updated, sm.state, history)
  IN [sm EXCEPT !.objects = c.objects, !.state = c.state, !.history = c.history]

\* undo(), as the manager it leaves and the value it returns.
undo(sm) ==
  IF sm.history = <<>>
  THEN [sm |-> sm, returns |-> FALSE]
  ELSE LET c == Compact(sm.objects, sm.history[Len(sm.history)],
                        SubSeq(sm.history, 1, Len(sm.history) - 1))
       IN [sm |-> [sm EXCEPT !.objects = c.objects, !.state = c.state,
                             !.history = c.history],
           returns |-> TRUE]

can_undo(sm) == Len(sm.history) > 0

\* StateManager.state.
State(sm) == sm.objects[sm.state]

\* ------------------------------------------------------------------ Init
NoFuture == [st |-> "none", err |-> NoError]

\* Nothing read and held by a monitor or retry-timer thread.
NoLocal == [completed_tasks |-> {}, requeue |-> {}, processing |-> <<>>]

\* An event bus the application has disabled and nobody subscribed to.
QuietBus == NewEventBus(FALSE, [t \in EventTypes |-> <<>>], <<>>)

\* No call observed.
NoCall == [op |-> "none"]

\* No StateManager constructed.
NoStateManager == [constructed |-> FALSE]

Init ==
  /\ clock = [ms |-> 0, us |-> 0]
  /\ task = <<>>
  /\ conv = <<>>
  /\ tasks = [i \in TaskIds |-> 0]
  /\ task_queue = <<>>
  /\ futures = [i \in TaskIds |-> 0]
  /\ fut = <<>>
  /\ timers = {}
  /\ statistics = NewStatistics
  /\ duplicate_hashes = {}
  /\ flags = [running |-> FALSE, is_paused |-> FALSE, is_cancelled |-> FALSE,
              pause_event |-> TRUE]
  /\ wl = [pc |-> "none", task |-> 0]
  /\ caller = [pc |-> "idle", task |-> 0]
  /\ event_bus = QuietBus
  /\ local = NoLocal
  /\ call = NoCall
  /\ state_manager = NoStateManager
  /\ conversion_func = TRUE
  /\ hist = [phase |-> "off", heldBack |-> {}]

\* ------------------------------------------------------------- the clocks
\* What two successive task creations can read from time.time() (milliseconds,
\* the task_id) and datetime.now() (microseconds, created_at): the same instant,
\* a later microsecond of the same millisecond, or a later millisecond.
Ticks == {"same", "us", "ms"}

Advance(c, tick) ==
  CASE tick = "same" -> c
    [] tick = "us" -> [c EXCEPT !.us = @ + 1]
    [] tick = "ms" -> [ms |-> c.ms + 1, us |-> c.us + 1]

\* ------------------------------------------------------------ observation
\* hist follows one scenario and never feeds back into the program: the
\* processor is paused before any task was dispatched ("init" -> "paused"),
\* tasks are added (heldBack), and resume() is called ("paused" -> "resumed").
\* Any other order of pause and dispatch, and a run that is not observed, is "off".
ObserveDispatch ==
  IF hist.phase = "init" THEN [hist EXCEPT !.phase = "off"] ELSE hist

ObservePause ==
  IF hist.phase = "init" THEN [hist EXCEPT !.phase = "paused"] ELSE hist

ObserveResume ==
  IF hist.phase = "paused" THEN [hist EXCEPT !.phase = "resumed"] ELSE hist

\* Where hist has a field late, it collects the tasks added while the processor
\* is running with the cancellation flag set.
ObserveAdd(o) ==
  LET h == IF hist.phase = "paused" THEN [hist EXCEPT !.heldBack = @ \cup {o}] ELSE hist
  IN IF "late" \in DOMAIN hist /\ flags.is_cancelled /\ flags.running
     THEN [h EXCEPT !.late = @ \cup {o}]
     ELSE h

\* -------------------------------------------------------------- FileFilter
\* An Optional value: None is <<>>, the value v is <<v>>.
None == <<>>

Some(v) == <<v>>

\* bool(x) of an Optional int: None and 0 are false.
TruthyInt(x) == x # None /\ x[1] # 0

\* bool(x) of an Optional list: None and [] are false.
TruthyList(x) == x # None /\ Len(x[1]) > 0

\* bool(x) of an Optional str: None and "" are false.
TruthyStr(x) == x # None /\ x[1] # ""

\* Megabytes to bytes, as the batch window converts its size fields.
MB == 1024 * 1024

\* A path is the sequence of its components, the file name last.  File names:
\* Path.suffix and Path.stem of each.
Suffix(name) ==
  CASE name = "a.PDF" -> ".PDF"
    [] name = "b.pdf" -> ".pdf"
    [] name = "c.txt" -> ".txt"
    [] OTHER -> ""

Stem(name) ==
  CASE name = "a.PDF" -> "a"
    [] name = "b.pdf" -> "b"
    [] name = "c.txt" -> "c"
    [] OTHER -> name

\* str.lower() on the suffixes in use.
Lower(s) == IF s = ".PDF" THEN ".pdf" ELSE s

Name(path) == path[Len(path)]

\* Path.resolve(): the "." components are dropped.
Resolve(path) == SelectSeq(path, LAMBDA c : c # ".")

\* Path.parents: every proper ancestor.
Parents(path) == {SubSeq(path, 1, k) : k \in 0..(Len(path) - 1)}

\* The pieces of text a literal pattern can be found in: of a file name, and of
\* str(path).
NameText(path) == {Name(path), Stem(Name(path)), Suffix(Name(path))}

PathText(path) == {path[i] : i \in 1..Len(path)} \cup NameText(path)

\* pattern.search(text) for a pattern that is a literal: the empty pattern
\* matches everywhere.
Search(pattern, text) == pattern = "" \/ pattern \in text

\* A file as matches() sees it: its path and what stat() gives, exists = FALSE
\* when stat() raises.
FileAt(path, exists, st_size, st_mtime) ==
  [path |-> path, exists |-> exists, st_size |-> st_size, st_mtime |-> st_mtime]

\* FileFilter(**a): name_pattern is compiled unless it is None or empty,
\* exclude_paths and exclude_patterns default to empty lists.
FileFilter(a) ==
  [extensions |-> a.extensions, min_size |-> a.min_size, max_size |-> a.max_size,
   min_date |-> a.min_date, max_date |-> a.max_date,
   name_pattern |-> IF TruthyStr(a.name_pattern) THEN a.name_pattern ELSE None,
   exclude_paths |-> IF TruthyList(a.exclude_paths) THEN a.exclude_paths[1] ELSE <<>>,
   exclude_patterns |-> IF TruthyList(a.exclude_patterns) THEN a.exclude_patterns[1] ELSE <<>>]

\* FileFilter.matches(file_path).
matches(flt, file) ==
  IF /\ TruthyList(flt.extensions)
     /\ Lower(Suffix(Name(file.path)))
          \notin {Lower(flt.extensions[1][i]) : i \in 1..Len(flt.extensions[1])}
  THEN FALSE
  ELSE IF ~file.exists
  THEN FALSE
  ELSE IF TruthyInt(flt.min_size) /\ file.st_size < flt.min_size[1]
  THEN FALSE
  ELSE IF TruthyInt(flt.max_size) /\ file.st_size > flt.max_size[1]
  THEN FALSE
  ELSE IF flt.min_date # None /\ file.st_mtime < flt.min_date[1]
  THEN FALSE
  ELSE IF flt.max_date # None /\ file.st_mtime > flt.max_date[1]
  THEN FALSE
  ELSE IF flt.name_pattern # None /\ ~Search(flt.name_pattern[1], NameText(file.path))
  THEN FALSE
  ELSE IF \E i \in 1..Len(flt.exclude_paths) :
            \/ Resolve(flt.exclude_paths[i]) \in Parents(Resolve(file.path))
            \/ Resolve(file.path) = Resolve(flt.exclude_paths[i])
  THEN FALSE
  ELSE IF \E i \in 1..Len(flt.exclude_patterns) :
            Search(flt.exclude_patterns[i], PathText(file.path))
  THEN FALSE
  ELSE TRUE

\* FileFilter.filter_files(file_paths).
filter_files(flt, files) == SelectSeq(files, LAMBDA f : matches(flt, f))

\* ---------------------------------------------------------------- add_task
\* An input file: the first MiB of its content (head), what follows it (tail),
\* and whether open() and read() succeed on it.  Head 0 is a path at which no
\* file exists.
File(head, tail) == [head |-> head, tail |-> tail, readable |-> TRUE]

NoFile == File(0, 0)

\* A file that exists and whose open() or read() raises (a directory, a file
\* the user may not read, an I/O error).
Unreadable(head, tail) == [head |-> head, tail |-> tail, readable |-> FALSE]

\* input_file.exists().
Exists(file) == file.head # 0

FileHashUnguarded(file) == file.head

\* BatchTask.__post_init__: the md5 of the first MiB; None (0) without a file,
\* and when reading it raised (the exception is logged and dropped).
FileHash(file) == IF Exists(file) /\ file.readable THEN file.head ELSE 0

\* BatchTask(...) with __post_init__.
NewTask(c, file, priority, max_retries) ==
  [task_id |-> c.ms, input_file |-> file, file_hash |-> FileHash(file),
   priority |-> priority, status |-> "PENDING", retry_count |-> 0,
   max_retries |-> max_retries, created_at |-> c.us, error_message |-> NoError,
   result_text |-> FALSE]

IsDuplicateNever(t) == FALSE

IsDuplicateWhileActive(t) ==
  /\ t.file_hash # 0
  /\ t.file_hash \in duplicate_hashes
  /\ \E o \in Objs :
       /\ task[o].file_hash = t.file_hash
       /\ task[o].status \notin {"COMPLETED", "FAILED", "CANCELLED"}

\* add_task's duplicate test.
IsDuplicate(t) == t.file_hash # 0 /\ t.file_hash \in duplicate_hashes

\* add_task up to and including task_queue.put(task): the duplicate branch
\* returns here, the other branch has published the task and still holds it.
AddTaskPut(limit, ticks, files, prios, retries, plans) ==
  /\ caller.pc = "idle"
  /\ Len(task) < limit
  /\ \E tick \in ticks, f \in files, p \in prios, m \in retries, k \in plans :
       /\ Len(task) = 0 => tick = "ms"
       /\ LET c == Advance(clock, tick)
              t == NewTask(c, f, p, m)
              o == Len(task) + 1
          IN /\ clock' = c
             /\ conv' = Append(conv, [plan |-> k, attempts |-> 0])
             /\ fut' = Append(fut, NoFuture)
             /\ IF IsDuplicate(t)
                THEN /\ task' = Append(task, [t EXCEPT !.status = "CANCELLED",
                                                       !.error_message = ErrDuplicate])
                     /\ statistics' = [statistics EXCEPT !.cancelled_tasks = @ + 1]
                     /\ UNCHANGED <<tasks, task_queue, caller, hist>>
                ELSE /\ task' = Append(task, t)
                     /\ tasks' = [tasks EXCEPT ![t.task_id] = o]
                     /\ task_queue' = HeapPush(task', task_queue, o)
                     /\ caller' = [pc |-> "add", task |-> o]
                     /\ hist' = ObserveAdd(o)
                     /\ UNCHANGED statistics
  /\ UNCHANGED <<futures, timers, duplicate_hashes, flags, wl, event_bus, local,
                 call, state_manager, conversion_func>>

\* The rest of add_task: the fingerprint, the counters, status = QUEUED and the
\* conversion-started event.
AddTaskFinish ==
  /\ caller.pc = "add"
  /\ LET o == caller.task IN
       /\ duplicate_hashes' = IF task[o].file_hash # 0
                              THEN duplicate_hashes \cup {task[o].file_hash}
                              ELSE duplicate_hashes
       /\ statistics' = [statistics EXCEPT
                           !.total_tasks = @ + 1,
                           !.tasks_by_status = Bucket(@, "QUEUED", 1)]
       /\ task' = [task EXCEPT ![o].status = "QUEUED"]
       /\ event_bus' = Emit(event_bus, Event(CONVERSION_STARTED,
                                              [task_id |-> task[o].task_id,
                                               input_file |-> task[o].input_file]))
  /\ caller' = [pc |-> "idle", task |-> 0]
  /\ UNCHANGED <<clock, conv, tasks, task_queue, futures, fut, timers, flags, wl, local, hist,
                 call, state_manager, conversion_func>>

\* --------------------------------------------------------------- add_files
\* The names bound in the body of add_files: its parameters and the locals it
\* assigns.
AddFilesLocals ==
  {"self", "file_paths", "output_dir", "file_filter", "priority", "tasks", "file_path",
   "output_file", "task"}

\* The names bound at the top level of the module batch_processor.
ModuleGlobals ==
  {"asyncio", "logging", "time", "hashlib", "Path", "List", "Dict", "Optional", "Callable",
   "Any", "Set", "Awaitable", "dataclass", "field", "Enum", "datetime", "timedelta",
   "ThreadPoolExecutor", "ProcessPoolExecutor", "Future", "as_completed", "queue",
   "threading", "re", "multiprocessing", "partial", "Event", "EventType", "EventBus",
   "ConversionState", "ConversionStatus", "logger", "TaskPriority", "TaskStatus",
   "BatchTask", "BatchStatistics", "FileFilter", "BatchProcessor"}

\* Evaluating a name inside add_files raises NameError unless it is bound there
\* or at module level (none of the names used is a builtin).
RaisesNameError(name) == name \notin AddFilesLocals \cup ModuleGlobals

\* file_path.with_suffix(suffix).name.
WithSuffix(name, suffix) == [stem |-> Stem(name), suffix |-> suffix]

\* output_dir / file_path.with_suffix('.md').name.
OutputFile(output_dir, path) == Append(output_dir, WithSuffix(Name(path), ".md"))

\* add_files(file_paths, output_dir, file_filter, priority) up to the loop: the
\* filter, when one is given, is applied and tasks = [].
AddFilesBegin(lists, output_dirs, filters, prios) ==
  /\ caller.pc = "idle"
  /\ call.op # "add_files"
  /\ \E paths \in lists, d \in output_dirs, f \in filters, p \in prios :
       call' = [op |-> "add_files",
                arguments |-> [file_paths |-> paths, output_dir |-> d, file_filter |-> f,
                               priority |-> p],
                file_paths |-> IF f # None THEN filter_files(f[1], paths) ELSE paths,
                tasks |-> <<>>, returns |-> None, raises |-> None]
  /\ caller' = [pc |-> "files", task |-> 0]
  /\ UNCHANGED <<clock, task, conv, tasks, task_queue, futures, fut, timers, statistics,
                 duplicate_hashes, flags, wl, event_bus, local, state_manager, hist,
                 conversion_func>>

\* One turn of the loop of add_files, or its return: output_file is computed and
\* the arguments of the add_task call are evaluated, max_retries among them.  The
\* call of add_task itself comes after that evaluation ("files_add").
AddFilesNext ==
  /\ caller.pc = "files"
  /\ IF call.file_paths = <<>>
     THEN /\ call' = [call EXCEPT !.returns = Some(call.tasks)]
          /\ caller' = [pc |-> "idle", task |-> 0]
     ELSE LET file_path == Head(call.file_paths)
              output_file == IF call.arguments.output_dir # None
                             THEN Some(OutputFile(call.arguments.output_dir[1], file_path.path))
                             ELSE None
          IN IF RaisesNameError("max_retries")
             THEN /\ call' = [call EXCEPT !.raises = Some("NameError")]
                  /\ caller' = [pc |-> "idle", task |-> 0]
             ELSE /\ call' = [call EXCEPT
                                !.file_paths = Tail(@),
                                !.tasks = Append(@, [input_file |-> file_path.path,
                                                     output_file |-> output_file,
                                                     priority |-> call.arguments.priority])]
                  /\ caller' = [pc |-> "files_add", task |-> 0]
  /\ UNCHANGED <<clock, task, conv, tasks, task_queue, futures, fut, timers, statistics,
                 duplicate_hashes, flags, wl, event_bus, local, state_manager, hist,
                 conversion_func>>

\* ------------------------------------------------- start / pause / resume
StartGuardNever(f) == FALSE

\* if self.running: return.
StartGuard(f) == f.running

\* start() as the values it leaves: the flags, the statistics, and whether a
\* worker pool and a dispatch thread were created.
StartValues(f, st) ==
  IF StartGuard(f)
  THEN [flags |-> f, statistics |-> st, created |-> FALSE]
  ELSE [flags |-> [running |-> TRUE, is_paused |-> FALSE, is_cancelled |-> FALSE,
                   pause_event |-> TRUE],
        statistics |-> [st EXCEPT !.start_time = TRUE],
        created |-> TRUE]

\* start(): no-op when running; a fresh dispatch thread otherwise.  One dispatch
\* thread is modelled, so a restart waits until the previous thread has left its loop.
Start ==
  /\ caller.pc = "idle"
  /\ LET r == StartValues(flags, statistics) IN
       /\ r.created => wl.pc \in {"none", "exit"}
       /\ flags' = r.flags
       /\ statistics' = r.statistics
       /\ wl' = IF r.created THEN [pc |-> "top", task |-> 0] ELSE wl
  /\ UNCHANGED <<clock, task, conv, tasks, task_queue, futures, fut, timers,
                 duplicate_hashes, caller, event_bus, local, hist, call, state_manager,
                 conversion_func>>

Pause ==
  /\ caller.pc = "idle"
  /\ flags' = [flags EXCEPT !.is_paused = TRUE, !.pause_event = FALSE]
  /\ hist' = ObservePause
  /\ UNCHANGED <<clock, task, conv, tasks, task_queue, futures, fut, timers, statistics,
                 duplicate_hashes, wl, caller, event_bus, local, call, state_manager,
                 conversion_func>>

Resume ==
  /\ caller.pc = "idle"
  /\ flags' = [flags EXCEPT !.is_paused = FALSE, !.pause_event = TRUE]
  /\ hist' = ObserveResume
  /\ UNCHANGED <<clock, task, conv, tasks, task_queue, futures, fut, timers, statistics,
                 duplicate_hashes, wl, caller, event_bus, local, call, state_manager,
                 conversion_func>>

\* ----------------------------------------------------- cancel_task / cancel_all
\* Future.done(): finished, with a result or with an exception, or cancelled.
Done(f) == f.st \in {"ok", "fail", "raised", "cancelled"}

\* Future.cancel(): succeeds on a pending future, changes nothing on a running one.
Cancel(f) == IF f.st = "pending" THEN [f EXCEPT !.st = "cancelled"] ELSE f

\* cancel_task(task_id) as the values it leaves and the value it returns: the
\* futures branch, else the queued branch, else False.
CancelTaskValues(id) ==
  LET o == futures[id] IN
  IF o # 0 /\ ~Done(fut[o])
  THEN [fut |-> [fut EXCEPT ![o] = Cancel(@)],
        task |-> IF tasks[id] # 0
                 THEN [task EXCEPT ![tasks[id]].status = "CANCELLED"] ELSE task,
        statistics |-> IF tasks[id] # 0
                       THEN [statistics EXCEPT !.cancelled_tasks = @ + 1] ELSE statistics,
        futures |-> [futures EXCEPT ![id] = 0],
        returns |-> TRUE]
  ELSE IF tasks[id] # 0 /\ task[tasks[id]].status = "QUEUED"
  THEN [fut |-> fut,
        task |-> [task EXCEPT ![tasks[id]].status = "CANCELLED"],
        statistics |-> [statistics EXCEPT !.cancelled_tasks = @ + 1],
        futures |-> futures,
        returns |-> TRUE]
  ELSE [fut |-> fut, task |-> task, statistics |-> statistics, futures |-> futures,
        returns |-> FALSE]

CancelTask(ids) ==
  /\ caller.pc = "idle"
  /\ \E id \in ids :
       LET r == CancelTaskValues(id) IN
       /\ fut' = r.fut
       /\ task' = r.task
       /\ statistics' = r.statistics
       /\ futures' = r.futures
  /\ UNCHANGED <<clock, conv, tasks, task_queue, timers, duplicate_hashes, flags, wl,
                 caller, event_bus, local, hist, call, state_manager, conversion_func>>

\* if not self.task_queue.empty(): one get_nowait().
DrainOne(tt, heap) ==
  IF heap = <<>>
  THEN [items |-> <<>>, heap |-> heap]
  ELSE LET r == HeapPop(tt, heap) IN [items |-> <<r.item>>, heap |-> r.heap]

\* while not self.task_queue.empty(): get_nowait(), as [items, heap].
RECURSIVE Drain(_, _)
Drain(tt, heap) ==
  IF heap = <<>>
  THEN [items |-> <<>>, heap |-> heap]
  ELSE LET r == HeapPop(tt, heap)
           d == Drain(tt, r.heap)
       IN [items |-> <<r.item>> \o d.items, heap |-> d.heap]

\* The body of cancel_all() after the flag, from the fields s to the fields it
\* leaves: every future that is not done is cancelled and its registered task
\* marked, futures is cleared, the queue is drained and every drained task marked.
CancelAllValues(s) ==
  LET live == {id \in TaskIds : s.futures[id] # 0 /\ ~Done(s.fut[s.futures[id]])}
      hit == {tasks[id] : id \in {i \in live : tasks[i] # 0}}
      d == Drain(s.task, s.task_queue)
      drained == {d.items[i] : i \in 1..Len(d.items)}
  IN [fut |-> [o \in DOMAIN s.fut |->
                 IF \E id \in live : s.futures[id] = o THEN Cancel(s.fut[o]) ELSE s.fut[o]],
      task |-> [o \in DOMAIN s.task |->
                  IF o \in hit \cup drained
                  THEN [s.task[o] EXCEPT !.status = "CANCELLED"] ELSE s.task[o]],
      statistics |-> [s.statistics EXCEPT
                        !.cancelled_tasks = @ + Cardinality({i \in live : tasks[i] # 0})
                                              + Len(d.items)],
      futures |-> [id \in TaskIds |-> 0],
      task_queue |-> d.heap]

\* The fields cancel_all() works on, as they are now.
Fields ==
  [fut |-> fut, task |-> task, statistics |-> statistics, futures |-> futures,
   task_queue |-> task_queue]

CancelAllEffect ==
  LET r == CancelAllValues(Fields)
  IN /\ fut' = r.fut
     /\ task' = r.task
     /\ statistics' = r.statistics
     /\ futures' = r.futures
     /\ task_queue' = r.task_queue

CancelAll ==
  /\ caller.pc = "idle"
  /\ flags' = [flags EXCEPT !.is_cancelled = TRUE]
  /\ CancelAllEffect
  /\ UNCHANGED <<clock, conv, tasks, timers, duplicate_hashes, wl, caller, event_bus,
                 local, hist, call, state_manager, conversion_func>>

\* stop() up to executor.shutdown(wait=True).
StopCancel ==
  /\ caller.pc = "idle"
  /\ flags' = [flags EXCEPT !.running = FALSE, !.is_cancelled = TRUE]
  /\ CancelAllEffect
  /\ caller' = [pc |-> "stop", task |-> 0]
  /\ UNCHANGED <<clock, conv, tasks, timers, duplicate_hashes, wl, event_bus, local, hist,
                 call, state_manager, conversion_func>>

\* The dispatch thread is inside pause_event.wait() with the event cleared.
Blocked == wl.pc = "gate" /\ ~flags.pause_event

\* stop() from the return of executor.shutdown(wait=True), which waits for the
\* work items the pool still holds, through worker_thread.join(timeout=5.0) to
\* the end: the join returns when the dispatch thread has left its loop, or by
\* its timeout when the thread is blocked.
StopJoin ==
  /\ caller.pc = "stop"
  /\ \A o \in Objs : fut[o].st \notin {"pending", "running", "lost"}
  /\ wl.pc \in {"none", "exit"} \/ Blocked
  /\ caller' = [pc |-> "idle", task |-> 0]
  /\ UNCHANGED <<clock, task, conv, tasks, task_queue, futures, fut, timers, statistics,
                 duplicate_hashes, flags, wl, event_bus, local, hist, call, state_manager,
                 conversion_func>>

\* --------------------------------------------------------------- _worker_loop
\* while self.running: the loop test.
WorkerTest ==
  /\ wl.pc = "top"
  /\ wl' = [wl EXCEPT !.pc = IF flags.running THEN "gate" ELSE "exit"]
  /\ UNCHANGED <<clock, task, conv, tasks, task_queue, futures, fut, timers, statistics,
                 duplicate_hashes, flags, caller, event_bus, local, hist, call, state_manager,
                 conversion_func>>

\* pause_event.wait() returns, then the is_cancelled test.
WorkerGate ==
  /\ wl.pc = "gate"
  /\ flags.pause_event
  /\ wl' = [wl EXCEPT !.pc = IF flags.is_cancelled THEN "exit" ELSE "get"]
  /\ UNCHANGED <<clock, task, conv, tasks, task_queue, futures, fut, timers, statistics,
                 duplicate_hashes, flags, caller, event_bus, local, hist, call, state_manager,
                 conversion_func>>

\* task_queue.get(timeout=1.0): a task, or queue.Empty and back to the loop test.
WorkerGet ==
  /\ wl.pc = "get"
  /\ IF task_queue = <<>>
     THEN /\ wl' = [pc |-> "top", task |-> 0]
          /\ UNCHANGED task_queue
     ELSE LET r == HeapPop(task, task_queue) IN
          /\ wl' = [pc |-> "got", task |-> r.item]
          /\ task_queue' = r.heap
  /\ UNCHANGED <<clock, task, conv, tasks, futures, fut, timers, statistics,
                 duplicate_hashes, flags, caller, event_bus, local, hist, call, state_manager,
                 conversion_func>>

SkipPoppedNever(o) == FALSE

SkipPoppedIfPaused(o) ==
  flags.is_cancelled \/ task[o].status = "CANCELLED" \/ flags.is_paused

\* The test after the pop: a cancelled processor or task is skipped.
SkipPopped(o) == flags.is_cancelled \/ task[o].status = "CANCELLED"

\* The rest of the iteration: skip, or mark PROCESSING and submit to the pool.
WorkerSubmit ==
  /\ wl.pc = "got"
  /\ LET o == wl.task IN
     IF SkipPopped(o)
     THEN UNCHANGED <<task, statistics, fut, futures, hist>>
     ELSE /\ task' = [task EXCEPT ![o].status = "PROCESSING"]
          /\ statistics' = [statistics EXCEPT !.tasks_by_status =
                              Bucket(Bucket(@, "QUEUED", -1), "PROCESSING", 1)]
          /\ fut' = [fut EXCEPT ![o] = [st |-> "pending", err |-> NoError]]
          /\ futures' = [futures EXCEPT ![task[o].task_id] = o]
          /\ hist' = ObserveDispatch
  /\ wl' = [pc |-> "top", task |-> 0]
  /\ UNCHANGED <<clock, conv, tasks, task_queue, timers, duplicate_hashes, flags, caller,
                 event_bus, local, call, state_manager, conversion_func>>

\* The same iteration step by step, as other threads can see it.  First the test
\* after the pop.
WorkerSkipTest ==
  /\ wl.pc = "got"
  /\ wl' = IF SkipPopped(wl.task) THEN [pc |-> "top", task |-> 0]
           ELSE [wl EXCEPT !.pc = "mark"]
  /\ UNCHANGED <<clock, task, conv, tasks, task_queue, futures, fut, timers, statistics,
                 duplicate_hashes, flags, caller, event_bus, local, call, state_manager, hist,
                 conversion_func>>

\* status = PROCESSING, tasks_by_status[QUEUED] -= 1 and the read of
\* tasks_by_status[PROCESSING] in tasks_by_status[PROCESSING] += 1.
WorkerMark ==
  /\ wl.pc = "mark"
  /\ task' = [task EXCEPT ![wl.task].status = "PROCESSING"]
  /\ statistics' = [statistics EXCEPT !.tasks_by_status = Bucket(@, "QUEUED", -1)]
  /\ local' = [local EXCEPT !.processing = <<statistics.tasks_by_status["PROCESSING"]>>]
  /\ wl' = [wl EXCEPT !.pc = "store"]
  /\ UNCHANGED <<clock, conv, tasks, task_queue, futures, fut, timers, duplicate_hashes,
                 flags, caller, event_bus, call, state_manager, hist, conversion_func>>

\* The write of tasks_by_status[PROCESSING], executor.submit, the futures entry
\* and the start of the monitor thread.
WorkerStore ==
  /\ wl.pc = "store"
  /\ statistics' = [statistics EXCEPT
                      !.tasks_by_status["PROCESSING"] = local.processing[1] + 1]
  /\ local' = [local EXCEPT !.processing = <<>>]
  /\ fut' = [fut EXCEPT ![wl.task] = [st |-> "pending", err |-> NoError]]
  /\ futures' = [futures EXCEPT ![task[wl.task].task_id] = wl.task]
  /\ hist' = ObserveDispatch
  /\ wl' = [pc |-> "top", task |-> 0]
  /\ UNCHANGED <<clock, task, conv, tasks, task_queue, timers, duplicate_hashes, flags,
                 caller, event_bus, call, state_manager, conversion_func>>

\* ------------------------------------------------- executor and _process_task
Running == {o \in Objs : fut[o].st \in {"running", "lost"}}

\* A pool thread takes a pending work item and enters _process_task: without a
\* conversion callback it raises ValueError, which the pool stores in the future;
\* a task or processor seen cancelled yields the "Task cancelled" failure without
\* a call of the conversion callback.
ExecStartWith(max_workers) ==
  /\ \E o \in Objs :
       /\ fut[o].st = "pending"
       /\ Cardinality(Running) < max_workers
       /\ fut' = [fut EXCEPT ![o] =
                    IF ~conversion_func
                    THEN [st |-> "raised", err |-> ErrNoConversionFunc]
                    ELSE IF flags.is_cancelled \/ task[o].status = "CANCELLED"
                    THEN [st |-> "fail", err |-> ErrTaskCancelled]
                    ELSE [st |-> "running", err |-> NoError]]
  /\ UNCHANGED <<clock, task, conv, tasks, task_queue, futures, timers, statistics,
                 duplicate_hashes, flags, wl, caller, event_bus, local, hist, call, state_manager,
                 conversion_func>>

ExecStart == ExecStartWith(MaxWorkers)

\* The conversion callback returns or raises: the first conv.plan calls fail.
ConvResult(c) ==
  IF c.attempts < c.plan
  THEN [st |-> "fail", err |-> ConvError(c.attempts + 1)]
  ELSE [st |-> "ok", err |-> NoError]

ExecFinish ==
  /\ \E o \in Objs :
       /\ fut[o].st \in {"running", "lost"}
       /\ fut' = [fut EXCEPT ![o] = IF fut[o].st = "lost" THEN NoFuture ELSE ConvResult(conv[o])]
       /\ conv' = [conv EXCEPT ![o].attempts = @ + 1]
  /\ UNCHANGED <<clock, task, tasks, task_queue, futures, timers, statistics,
                 duplicate_hashes, flags, wl, caller, event_bus, local, hist, call, state_manager,
                 conversion_func>>

\* ------------------------------------------------------ _handle_task_result
\* delay = 2 ** task.retry_count, in seconds.
Delay(retry_count) == 2 ^ retry_count

\* The tasks a requeue_after_delay thread is asleep for.
Asleep == {t.task : t \in timers}

RetryAllowedIgnoringCancel(t) == t.retry_count < t.max_retries

RetryAllowedOneMore(t) == t.retry_count <= t.max_retries /\ ~flags.is_cancelled

\* The retry test of _handle_task_result.
RetryAllowed(t) == t.retry_count < t.max_retries /\ ~flags.is_cancelled

\* str(e) of an exception a subscriber raised.
ErrSubscriber == <<"subscriber error">>

\* The except branch of monitor_future on task table tk and statistics st: the
\* task is marked FAILED with str(e).
ExceptBranch(tk, st, o, err) ==
  [task |-> [tk EXCEPT ![o].status = "FAILED", ![o].error_message = err],
   statistics |-> [st EXCEPT
                     !.failed_tasks = @ + 1,
                     !.tasks_by_status =
                        Bucket(BucketFloor(@, "PROCESSING"), "FAILED", 1)]]

\* The end of a branch of _handle_task_result that emits: what the branch wrote
\* (tk, st) stays, unless emit raised into the except branch of monitor_future.
Emitted(o, tk, st, bus) ==
  /\ event_bus' = bus
  /\ LET r == IF bus.escaped
              THEN ExceptBranch(tk, st, o, ErrSubscriber)
              ELSE [task |-> tk, statistics |-> st]
     IN /\ task' = r.task
        /\ statistics' = r.statistics

\* The success branch's counters, completed being the new completed_tasks.
Completed(st, completed) ==
  [st EXCEPT !.completed_tasks = completed,
             !.tasks_by_status = Bucket(Bucket(@, "PROCESSING", -1), "COMPLETED", 1)]

CompletedEvent(o) ==
  Event(CONVERSION_COMPLETED,
        [task_id |-> task[o].task_id, input_file |-> task[o].input_file])

\* _handle_task_result(task, result) for task object o.
HandleTaskResult(o, result) ==
  IF result.st = "ok"
  THEN /\ Emitted(o, [task EXCEPT ![o].status = "COMPLETED", ![o].result_text = TRUE],
                  Completed(statistics, statistics.completed_tasks + 1),
                  Emit(event_bus, CompletedEvent(o)))
       /\ UNCHANGED timers
  ELSE IF RetryAllowed(task[o])
  THEN /\ task' = [task EXCEPT ![o].retry_count = @ + 1, ![o].status = "RETRYING"]
       /\ statistics' = [statistics EXCEPT
                           !.retry_count = @ + 1,
                           !.tasks_by_status = Bucket(@, "PROCESSING", -1)]
       /\ timers' = timers \cup {[task |-> o, delay |-> Delay(task[o].retry_count + 1)]}
       /\ UNCHANGED event_bus
  ELSE /\ Emitted(o, [task EXCEPT ![o].status = "FAILED", ![o].error_message = result.err],
                  [statistics EXCEPT
                     !.failed_tasks = @ + 1,
                     !.tasks_by_status =
                        Bucket(Bucket(@, "PROCESSING", -1), "FAILED", 1)],
                  Emit(event_bus, Event(CONVERSION_FAILED,
                                        [task_id |-> task[o].task_id, error |-> result.err])))
       /\ UNCHANGED timers

\* The except branch of monitor_future for an exception of future.result().
MonitorException(o, err) ==
  LET r == ExceptBranch(task, statistics, o, err)
  IN /\ task' = r.task
     /\ statistics' = r.statistics
     /\ UNCHANGED <<timers, event_bus>>

\* finally: del self.futures[task.task_id].
ForgetFuture(o) == futures' = [futures EXCEPT ![task[o].task_id] = 0]

\* The monitor thread of o is between its read and its write of completed_tasks.
Loaded(o) == \E p \in local.completed_tasks : p[1] = o

\* monitor_future: future.result() returns the result dictionary, or raises
\* CancelledError for a future cancelled while pending, or the exception that
\* _process_task raised.
Monitor ==
  /\ \E o \in Objs :
       /\ Done(fut[o])
       /\ ~Loaded(o)
       /\ IF fut[o].st = "cancelled"
          THEN MonitorException(o, ErrFutureCancelled)
          ELSE IF fut[o].st = "raised"
          THEN MonitorException(o, fut[o].err)
          ELSE HandleTaskResult(o, fut[o])
       /\ ForgetFuture(o)
       /\ fut' = [fut EXCEPT ![o] = NoFuture]
  /\ UNCHANGED <<clock, conv, tasks, task_queue, duplicate_hashes, flags, wl, caller,
                 local, hist, call, state_manager, conversion_func>>

\* monitor_future with a successful result, up to the read of completed_tasks in
\* statistics.completed_tasks += 1.
MonitorLoad ==
  /\ \E o \in Objs :
       /\ fut[o].st = "ok"
       /\ ~Loaded(o)
       /\ task' = [task EXCEPT ![o].status = "COMPLETED", ![o].result_text = TRUE]
       /\ local' = [local EXCEPT !.completed_tasks = @ \cup {<<o, statistics.completed_tasks>>}]
  /\ UNCHANGED <<clock, conv, tasks, task_queue, futures, fut, timers, statistics,
                 duplicate_hashes, flags, wl, caller, event_bus, hist, call, state_manager,
                 conversion_func>>

\* monitor_future with a successful result, from the write of completed_tasks to
\* the end of the thread.
MonitorStore ==
  /\ \E p \in local.completed_tasks :
       LET o == p[1] IN
       /\ Emitted(o, task, Completed(statistics, p[2] + 1), Emit(event_bus, CompletedEvent(o)))
       /\ ForgetFuture(o)
       /\ fut' = [fut EXCEPT ![o] = NoFuture]
       /\ local' = [local EXCEPT !.completed_tasks = @ \ {p}]
  /\ UNCHANGED <<clock, conv, tasks, task_queue, timers, duplicate_hashes, flags, wl,
                 caller, hist, call, state_manager, conversion_func>>

\* monitor_future: future.result(timeout=300) raises TimeoutError while the
\* conversion is still running; the pool thread stays busy with it.
MonitorTimeout ==
  /\ \E o \in Objs :
       /\ fut[o].st = "running"
       /\ MonitorException(o, ErrTimeout)
       /\ ForgetFuture(o)
       /\ fut' = [fut EXCEPT ![o] = [st |-> "lost", err |-> NoError]]
  /\ UNCHANGED <<clock, conv, tasks, task_queue, duplicate_hashes, flags, wl, caller,
                 local, hist, call, state_manager, conversion_func>>

\* The test of requeue_after_delay.
RequeueTest(o) == ~flags.is_cancelled /\ task[o].status = "RETRYING"

\* requeue_after_delay, once time.sleep(delay) has returned, with no step of
\* another thread between its test and its put.
RequeueAfterDelay ==
  /\ \E t \in timers :
       LET o == t.task IN
       /\ timers' = timers \ {t}
       /\ IF RequeueTest(o)
          THEN /\ task' = [task EXCEPT ![o].status = "QUEUED"]
               /\ task_queue' = HeapPush(task, task_queue, o)
               /\ statistics' = [statistics EXCEPT
                                   !.tasks_by_status = Bucket(@, "QUEUED", 1)]
          ELSE UNCHANGED <<task, task_queue, statistics>>
  /\ UNCHANGED <<clock, conv, tasks, futures, fut, duplicate_hashes, flags, wl, caller,
                 event_bus, local, hist, call, state_manager, conversion_func>>

\* requeue_after_delay: time.sleep(delay) has returned and the test is made.
RequeueCheck ==
  /\ \E t \in timers :
       LET o == t.task IN
       /\ timers' = timers \ {t}
       /\ local' = IF RequeueTest(o) THEN [local EXCEPT !.requeue = @ \cup {o}] ELSE local
  /\ UNCHANGED <<clock, task, conv, tasks, task_queue, futures, fut, statistics,
                 duplicate_hashes, flags, wl, caller, event_bus, hist, call, state_manager,
                 conversion_func>>

\* requeue_after_delay after a test that held: status, put and the counter.
RequeuePut ==
  /\ \E o \in local.requeue :
       /\ local' = [local EXCEPT !.requeue = @ \ {o}]
       /\ task' = [task EXCEPT ![o].status = "QUEUED"]
       /\ task_queue' = HeapPush(task, task_queue, o)
       /\ statistics' = [statistics EXCEPT !.tasks_by_status = Bucket(@, "QUEUED", 1)]
  /\ UNCHANGED <<clock, conv, tasks, futures, fut, timers, duplicate_hashes, flags, wl,
                 caller, event_bus, hist, call, state_manager, conversion_func>>

\* ------------------------------------------------------------ specifications
\* Inputs of add_task in the lifecycle specification.
Files == {NoFile, File(1, 0)}

\* The whole processor: every public operation and every thread.
Next ==
  \/ AddTaskPut(MaxTasks, {"ms"}, Files, {NORMAL}, {1}, {0, AlwaysFail})
  \/ AddTaskFinish
  \/ Start
  \/ Pause
  \/ Resume
  \/ CancelTask(1..MaxTasks)
  \/ CancelAll
  \/ StopCancel
  \/ StopJoin
  \/ WorkerTest
  \/ WorkerGate
  \/ WorkerGet
  \/ WorkerSubmit
  \/ ExecStart
  \/ ExecFinish
  \/ Monitor
  \/ RequeueCheck
  \/ RequeuePut

Spec == Init /\ [][Next]_vars

\* The processor with no cancellation and no stop: add_task, start, pause,
\* resume and every thread, the run being observed from the start (hist).
InitObserved ==
  /\ clock = [ms |-> 0, us |-> 0]
  /\ task = <<>>
  /\ conv = <<>>
  /\ tasks = [i \in TaskIds |-> 0]
  /\ task_queue = <<>>
  /\ futures = [i \in TaskIds |-> 0]
  /\ fut = <<>>
  /\ timers = {}
  /\ statistics = NewStatistics
  /\ duplicate_hashes = {}
  /\ flags = [running |-> FALSE, is_paused |-> FALSE, is_cancelled |-> FALSE,
              pause_event |-> TRUE]
  /\ wl = [pc |-> "none", task |-> 0]
  /\ caller = [pc |-> "idle", task |-> 0]
  /\ event_bus = QuietBus
  /\ local = NoLocal
  /\ call = NoCall
  /\ state_manager = NoStateManager
  /\ conversion_func = TRUE
  /\ hist = [phase |-> "init", heldBack |-> {}]

NextRun ==
  \/ AddTaskPut(MaxTasks, {"ms"}, {NoFile}, {NORMAL}, 0..MaxPlan, 0..AlwaysFail)
  \/ AddTaskFinish
  \/ Start
  \/ Pause
  \/ Resume
  \/ WorkerTest
  \/ WorkerGate
  \/ WorkerGet
  \/ WorkerSubmit
  \/ ExecStart
  \/ ExecFinish
  \/ Monitor
  \/ RequeueAfterDelay

SpecRun == InitObserved /\ [][NextRun]_vars

\* Admission with duplicates: inputs of two fingerprints, task identifiers that
\* may repeat, successful conversions, and cancellation by id or of everything.
NextAdmit ==
  \/ AddTaskPut(MaxAdmitTasks, {"same", "ms"}, {File(1, 0), File(2, 0)}, {NORMAL}, {0}, {0})
  \/ AddTaskFinish
  \/ Start
  \/ CancelTask(1..MaxAdmitTasks)
  \/ CancelAll
  \/ WorkerTest
  \/ WorkerGate
  \/ WorkerGet
  \/ WorkerSubmit
  \/ ExecStart
  \/ ExecFinish
  \/ Monitor

SpecAdmit == Init /\ [][NextAdmit]_vars

\* Admission and dispatch only: tasks of every priority are added at every
\* timing the clocks allow and the dispatch thread pops and submits them.
NextOrder ==
  \/ AddTaskPut(MaxOrderTasks, Ticks, {NoFile}, {LOW, NORMAL, HIGH, URGENT}, {0}, {0})
  \/ AddTaskFinish
  \/ Start
  \/ WorkerTest
  \/ WorkerGate
  \/ WorkerGet
  \/ WorkerSubmit

SpecOrder == Init /\ [][NextOrder]_vars

\* A batch as the batch window runs it: files with content, some sharing their
\* first MiB, are all added before start(), every conversion succeeds, nothing is
\* paused, cancelled or stopped, and the completion handlers of different tasks
\* interleave at their update of completed_tasks.
BatchFiles == {File(1, 1), File(1, 2), File(2, 1)}

AddBeforeStart ==
  /\ ~flags.running
  /\ AddTaskPut(MaxBatchTasks, {"ms"}, BatchFiles, {NORMAL}, {0, 1}, {0})

NextBatch ==
  \/ AddBeforeStart
  \/ AddTaskFinish
  \/ Start
  \/ WorkerTest
  \/ WorkerGate
  \/ WorkerGet
  \/ WorkerSubmit
  \/ ExecStartWith(BatchWorkers)
  \/ ExecFinish
  \/ MonitorLoad
  \/ MonitorStore

SpecBatch == Init /\ [][NextBatch]_vars

\* Notifications: the event bus is enabled and has, per event type and globally,
\* no subscriber or a subscriber that raises followed by one that returns.
\* Conversions succeed or fail for good, tasks are cancelled by id or all at once.
SubscriberLists == {<<>>, <<Subscriber(1, TRUE), Subscriber(2, FALSE)>>}

GlobalSubscriberLists == {<<>>, <<Subscriber(3, TRUE), Subscriber(4, FALSE)>>}

InitEvents ==
  /\ clock = [ms |-> 0, us |-> 0]
  /\ task = <<>>
  /\ conv = <<>>
  /\ tasks = [i \in TaskIds |-> 0]
  /\ task_queue = <<>>
  /\ futures = [i \in TaskIds |-> 0]
  /\ fut = <<>>
  /\ timers = {}
  /\ statistics = NewStatistics
  /\ duplicate_hashes = {}
  /\ flags = [running |-> FALSE, is_paused |-> FALSE, is_cancelled |-> FALSE,
              pause_event |-> TRUE]
  /\ wl = [pc |-> "none", task |-> 0]
  /\ caller = [pc |-> "idle", task |-> 0]
  /\ event_bus \in {NewEventBus(TRUE, [t \in EventTypes |-> sp], gl) :
                       sp \in SubscriberLists, gl \in GlobalSubscriberLists}
  /\ local = NoLocal
  /\ call = NoCall
  /\ state_manager = NoStateManager
  /\ conversion_func = TRUE
  /\ hist = [phase |-> "off", heldBack |-> {}]

NextEvents ==
  \/ AddTaskPut(MaxEventTasks, {"ms"}, {NoFile}, {NORMAL}, {0}, {0, AlwaysFail})
  \/ AddTaskFinish
  \/ Start
  \/ CancelTask(1..MaxEventTasks)
  \/ CancelAll
  \/ WorkerTest
  \/ WorkerGate
  \/ WorkerGet
  \/ WorkerSubmit
  \/ ExecStart
  \/ ExecFinish
  \/ Monitor

SpecEvents == InitEvents /\ [][NextEvents]_vars

\* Notifications of a run that is not cancelled: add_task, start and every thread.
NextNotify ==
  \/ AddTaskPut(MaxEventTasks, {"ms"}, {NoFile}, {NORMAL}, {0}, {0, AlwaysFail})
  \/ AddTaskFinish
  \/ Start
  \/ WorkerTest
  \/ WorkerGate
  \/ WorkerGet
  \/ WorkerSubmit
  \/ ExecStart
  \/ ExecFinish
  \/ Monitor

SpecNotify == InitEvents /\ [][NextNotify]_vars

\* FileFilter.matches on its own: a filter built from every combination of a few
\* values per criterion, applied to one file.
FilterArguments ==
  [extensions : {None, Some(<<".pdf">>), Some(<<".PDF", ".txt">>)},
   min_size : {None, Some(0), Some(5 * MB)},
   max_size : {None, Some(0), Some(50 * MB)},
   min_date : {None, Some(2)},
   max_date : {None, Some(2)},
   name_pattern : {None, Some(""), Some("a")},
   exclude_paths : {None, Some(<<<<"d">>>>), Some(<<<<"e", ".", "b.pdf">>>>)},
   exclude_patterns : {None, Some(<<"e">>)}]

FilterPaths == {<<"d", "a.PDF">>, <<"e", "b.pdf">>, <<"d", "sub", "c.txt">>}

FilterFiles ==
  {FileAt(p, TRUE, size, mtime) :
     p \in FilterPaths, size \in {0, MB \div 1024, 5 * MB, 10 * MB, 50 * MB, 100 * MB},
     mtime \in 1..3}
    \cup {FileAt(p, FALSE, 0, 0) : p \in FilterPaths}

InitFilter ==
  /\ clock = [ms |-> 0, us |-> 0]
  /\ task = <<>>
  /\ conv = <<>>
  /\ tasks = [i \in TaskIds |-> 0]
  /\ task_queue = <<>>
  /\ futures = [i \in TaskIds |-> 0]
  /\ fut = <<>>
  /\ timers = {}
  /\ statistics = NewStatistics
  /\ duplicate_hashes = {}
  /\ flags = [running |-> FALSE, is_paused |-> FALSE, is_cancelled |-> FALSE,
              pause_event |-> TRUE]
  /\ wl = [pc |-> "none", task |-> 0]
  /\ caller = [pc |-> "idle", task |-> 0]
  /\ event_bus = QuietBus
  /\ local = NoLocal
  /\ call \in {[op |-> "matches", arguments |-> a, file |-> f, returns |-> None] :
                 a \in FilterArguments, f \in FilterFiles}
  /\ state_manager = NoStateManager
  /\ conversion_func = TRUE
  /\ hist = [phase |-> "off", heldBack |-> {}]

\* FileFilter(**arguments).matches(file) is called and returns.
MatchesCall ==
  /\ call.op = "matches"
  /\ call.returns = None
  /\ call' = [call EXCEPT !.returns = Some(matches(FileFilter(call.arguments), call.file))]
  /\ UNCHANGED <<clock, task, conv, tasks, task_queue, futures, fut, timers, statistics,
                 duplicate_hashes, flags, wl, caller, event_bus, local, state_manager, hist,
                 conversion_func>>

NextFilter == MatchesCall

SpecFilter == InitFilter /\ [][NextFilter]_vars

\* add_files on a fresh processor: lists of up to MaxPaths files, with and
\* without an output directory and a filter, at every priority.
RECURSIVE ListsUpTo(_, _)
ListsUpTo(S, n) ==
  IF n = 0 THEN {<<>>}
  ELSE LET shorter == ListsUpTo(S, n - 1)
       IN shorter \cup {Append(l, x) : l \in {k \in shorter : Len(k) = n - 1}, x \in S}

AddFilesInputs ==
  {FileAt(<<"d", "a.PDF">>, TRUE, 10 * MB, 1), FileAt(<<"e", "b.pdf">>, TRUE, 100 * MB, 1),
   FileAt(<<"d", "sub", "c.txt">>, TRUE, 0, 1)}

NoCriteria ==
  [extensions |-> None, min_size |-> None, max_size |-> None, min_date |-> None,
   max_date |-> None, name_pattern |-> None, exclude_paths |-> None,
   exclude_patterns |-> None]

AddFilesFilters ==
  {None,
   Some(FileFilter([NoCriteria EXCEPT !.extensions = Some(<<".pdf">>)])),
   Some(FileFilter([NoCriteria EXCEPT !.max_size = Some(50 * MB)])),
   Some(FileFilter([NoCriteria EXCEPT !.name_pattern = Some("none")]))}

NextFiles ==
  \/ AddFilesBegin(ListsUpTo(AddFilesInputs, MaxPaths), {None, Some(<<"out">>)},
                   AddFilesFilters, {LOW, NORMAL, HIGH, URGENT})
  \/ AddFilesNext

SpecFiles == Init /\ [][NextFiles]_vars

\* The event bus on its own: an enabled bus with no subscriber, two callbacks,
\* two event types, and any sequence of subscribe, unsubscribe and emit calls
\* with up to MaxEmits emits.
Callbacks == {Subscriber(1, FALSE), Subscriber(2, TRUE)}

BusEventTypes == {CONVERSION_STARTED, CONVERSION_COMPLETED}

InitBus ==
  /\ clock = [ms |-> 0, us |-> 0]
  /\ task = <<>>
  /\ conv = <<>>
  /\ tasks = [i \in TaskIds |-> 0]
  /\ task_queue = <<>>
  /\ futures = [i \in TaskIds |-> 0]
  /\ fut = <<>>
  /\ timers = {}
  /\ statistics = NewStatistics
  /\ duplicate_hashes = {}
  /\ flags = [running |-> FALSE, is_paused |-> FALSE, is_cancelled |-> FALSE,
              pause_event |-> TRUE]
  /\ wl = [pc |-> "none", task |-> 0]
  /\ caller = [pc |-> "idle", task |-> 0]
  /\ event_bus = NewEventBus(TRUE, [t \in EventTypes |-> <<>>], <<>>)
  /\ local = NoLocal
  /\ call = NoCall
  /\ state_manager = NoStateManager
  /\ conversion_func = TRUE
  /\ hist = [phase |-> "off", heldBack |-> {}]

SubscribeCall ==
  /\ \E t \in BusEventTypes, cb \in Callbacks, g \in BOOLEAN :
       LET r == SubscribeValues(event_bus, t, cb, g) IN
       /\ event_bus' = r.bus
       /\ call' = [op |-> "subscribe", raises |-> r.raises]
  /\ UNCHANGED <<clock, task, conv, tasks, task_queue, futures, fut, timers, statistics,
                 duplicate_hashes, flags, wl, caller, local, state_manager, hist, conversion_func>>

UnsubscribeCall ==
  /\ \E t \in {<<>>} \cup {<<e>> : e \in BusEventTypes}, cb \in Callbacks :
       event_bus' = UnsubscribeValues(event_bus, t, cb)
  /\ call' = [op |-> "unsubscribe", raises |-> <<>>]
  /\ UNCHANGED <<clock, task, conv, tasks, task_queue, futures, fut, timers, statistics,
                 duplicate_hashes, flags, wl, caller, local, state_manager, hist, conversion_func>>

EmitCall ==
  /\ Len(event_bus.event_history) < MaxEmits
  /\ \E t \in BusEventTypes :
       event_bus' = Emit(event_bus, Event(t, [n |-> Len(event_bus.event_history) + 1]))
  /\ call' = [op |-> "emit", raises |-> <<>>]
  /\ UNCHANGED <<clock, task, conv, tasks, task_queue, futures, fut, timers, statistics,
                 duplicate_hashes, flags, wl, caller, local, state_manager, hist, conversion_func>>

NextBus ==
  \/ SubscribeCall
  \/ UnsubscribeCall
  \/ EmitCall

SpecBus == InitBus /\ [][NextBus]_vars

\* The StateManager on its own: constructed on any initial state, then any
\* sequence of up to MaxUpdates update_state calls and of undo calls.  hist
\* keeps, for the properties, the initial state, the state before each update
\* not yet undone (expected), the calls made, and whether more than
\* StateMaxHistory updates were ever waiting to be undone.
InitState ==
  /\ clock = [ms |-> 0, us |-> 0]
  /\ task = <<>>
  /\ conv = <<>>
  /\ tasks = [i \in TaskIds |-> 0]
  /\ task_queue = <<>>
  /\ futures = [i \in TaskIds |-> 0]
  /\ fut = <<>>
  /\ timers = {}
  /\ statistics = NewStatistics
  /\ duplicate_hashes = {}
  /\ flags = [running |-> FALSE, is_paused |-> FALSE, is_cancelled |-> FALSE,
              pause_event |-> TRUE]
  /\ wl = [pc |-> "none", task |-> 0]
  /\ caller = [pc |-> "idle", task |-> 0]
  /\ event_bus = QuietBus
  /\ local = NoLocal
  /\ call = NoCall
  /\ conversion_func = TRUE
  /\ \E t \in Themes :
       /\ state_manager = NewStateManager(AppState(t))
       /\ hist = [phase |-> "off", heldBack |-> {}, initial |-> AppState(t),
                  expected |-> <<>>, updates |-> 0, undos |-> 0, overflowed |-> FALSE]

UpdateStateCall ==
  /\ hist.updates < MaxUpdates
  /\ \E t \in Themes :
       /\ hist.updates >= MaxChoices => t = NextTheme(State(state_manager).theme)
       /\ state_manager' = update_state(state_manager, t)
       /\ hist' = [hist EXCEPT
                     !.expected = Append(@, State(state_manager)),
                     !.updates = @ + 1,
                     !.overflowed = @ \/ Len(hist.expected) + 1 > StateMaxHistory]
  /\ call' = [op |-> "update_state", returns |-> None]
  /\ UNCHANGED <<clock, task, conv, tasks, task_queue, futures, fut, timers, statistics,
                 duplicate_hashes, flags, wl, caller, event_bus, local, conversion_func>>

UndoCall ==
  /\ LET r == undo(state_manager) IN
       /\ state_manager' = r.sm
       /\ call' = [op |-> "undo", returns |-> Some(r.returns)]
       /\ hist' = IF hist.expected = <<>> THEN hist
                  ELSE [hist EXCEPT
                          !.expected = SubSeq(@, 1, Len(@) - 1),
                          !.undos = @ + 1]
  /\ UNCHANGED <<clock, task, conv, tasks, task_queue, futures, fut, timers, statistics,
                 duplicate_hashes, flags, wl, caller, event_bus, local, conversion_func>>

NextState ==
  \/ UpdateStateCall
  \/ UndoCall

SpecState == InitState /\ [][NextState]_vars

\* The dispatch thread step by step against the caller and the monitor threads:
\* tasks whose conversion succeeds at once, cancellation by id, distinct task
\* identifiers.
NextDispatch ==
  \/ AddTaskPut(MaxTasks, {"ms"}, {NoFile}, {NORMAL}, {0}, {0})
  \/ AddTaskFinish
  \/ Start
  \/ CancelTask(1..MaxTasks)
  \/ WorkerTest
  \/ WorkerGate
  \/ WorkerGet
  \/ WorkerSkipTest
  \/ WorkerMark
  \/ WorkerStore
  \/ ExecStart
  \/ ExecFinish
  \/ Monitor

SpecDispatch == Init /\ [][NextDispatch]_vars

\* Conversions that outlast the monitor's wait: tasks with a retry budget whose
\* conversion succeeds, or fails once, or is still running when
\* future.result(timeout=300) gives up.  Nothing is paused, cancelled or stopped.
NextTimeout ==
  \/ AddTaskPut(MaxTasks, {"ms"}, {NoFile}, {NORMAL}, {1}, {0, 1})
  \/ AddTaskFinish
  \/ Start
  \/ WorkerTest
  \/ WorkerGate
  \/ WorkerGet
  \/ WorkerSubmit
  \/ ExecStart
  \/ ExecFinish
  \/ Monitor
  \/ MonitorTimeout
  \/ RequeueAfterDelay

SpecTimeout == Init /\ [][NextTimeout]_vars

\* The retry limit under every public operation: tasks whose conversion always
\* fails are added, cancelled by id or all at once, the processor is
\* paused, resumed, stopped and started again, and a conversion may time out.
NextRetry ==
  \/ AddTaskPut(MaxRetryTasks, {"ms"}, {NoFile}, {NORMAL}, {MaxRetries}, {AlwaysFail})
  \/ AddTaskFinish
  \/ Start
  \/ Pause
  \/ Resume
  \/ CancelTask(1..MaxRetryTasks)
  \/ CancelAll
  \/ StopCancel
  \/ StopJoin
  \/ WorkerTest
  \/ WorkerGate
  \/ WorkerGet
  \/ WorkerSubmit
  \/ ExecStart
  \/ ExecFinish
  \/ Monitor
  \/ MonitorTimeout
  \/ RequeueCheck
  \/ RequeuePut

SpecRetry == Init /\ [][NextRetry]_vars

\* Cancellation of a running processor: tasks are added before and after
\* cancel_all(), the processor is paused, resumed, stopped and started again,
\* and the dispatch iteration is taken step by step.  hist.late observes the
\* tasks added while the processor is running with the cancellation flag set.
InitCancelled ==
  /\ clock = [ms |-> 0, us |-> 0]
  /\ task = <<>>
  /\ conv = <<>>
  /\ tasks = [i \in TaskIds |-> 0]
  /\ task_queue = <<>>
  /\ futures = [i \in TaskIds |-> 0]
  /\ fut = <<>>
  /\ timers = {}
  /\ statistics = NewStatistics
  /\ duplicate_hashes = {}
  /\ flags = [running |-> FALSE, is_paused |-> FALSE, is_cancelled |-> FALSE,
              pause_event |-> TRUE]
  /\ wl = [pc |-> "none", task |-> 0]
  /\ caller = [pc |-> "idle", task |-> 0]
  /\ event_bus = QuietBus
  /\ local = NoLocal
  /\ call = NoCall
  /\ state_manager = NoStateManager
  /\ conversion_func = TRUE
  /\ hist = [phase |-> "off", heldBack |-> {}, late |-> {}]

NextCancelled ==
  \/ AddTaskPut(MaxTasks, {"ms"}, {NoFile}, {NORMAL}, {0}, {0})
  \/ AddTaskFinish
  \/ Start
  \/ Pause
  \/ Resume
  \/ CancelAll
  \/ StopCancel
  \/ StopJoin
  \/ WorkerTest
  \/ WorkerGate
  \/ WorkerGet
  \/ WorkerSkipTest
  \/ WorkerMark
  \/ WorkerStore
  \/ ExecStart
  \/ ExecFinish
  \/ Monitor

SpecCancelled == InitCancelled /\ [][NextCancelled]_vars

\* A processor constructed with neither conversion callback
\* (conversion_func = None, async_conversion_func = None): tasks are added, the
\* processor is started and the tasks are dispatched.
InitNoCallback ==
  /\ clock = [ms |-> 0, us |-> 0]
  /\ task = <<>>
  /\ conv = <<>>
  /\ tasks = [i \in TaskIds |-> 0]
  /\ task_queue = <<>>
  /\ futures = [i \in TaskIds |-> 0]
  /\ fut = <<>>
  /\ timers = {}
  /\ statistics = NewStatistics
  /\ duplicate_hashes = {}
  /\ flags = [running |-> FALSE, is_paused |-> FALSE, is_cancelled |-> FALSE,
              pause_event |-> TRUE]
  /\ wl = [pc |-> "none", task |-> 0]
  /\ caller = [pc |-> "idle", task |-> 0]
  /\ event_bus = QuietBus
  /\ local = NoLocal
  /\ call = NoCall
  /\ state_manager = NoStateManager
  /\ conversion_func = FALSE
  /\ hist = [phase |-> "off", heldBack |-> {}]

NextNoCallback ==
  \/ AddTaskPut(MaxTasks, {"ms"}, {NoFile}, {NORMAL}, {0, 1}, {0})
  \/ AddTaskFinish
  \/ Start
  \/ WorkerTest
  \/ WorkerGate
  \/ WorkerGet
  \/ WorkerSubmit
  \/ ExecStart
  \/ Monitor

SpecNoCallback == InitNoCallback /\ [][NextNoCallback]_vars

\* Admission of inputs with and without a fingerprint: a path with no file, a
\* file that cannot be read and a file that can, the last two with the same
\* content; the tasks are dispatched and converted.
FingerprintFiles == {NoFile, Unreadable(1, 0), File(1, 0)}

NextFingerprint ==
  \/ AddTaskPut(MaxAdmitTasks, {"ms"}, FingerprintFiles, {NORMAL}, {0}, {0})
  \/ AddTaskFinish
  \/ Start
  \/ WorkerTest
  \/ WorkerGate
  \/ WorkerGet
  \/ WorkerSubmit
  \/ ExecStart
  \/ ExecFinish
  \/ Monitor

SpecFingerprint == Init /\ [][NextFingerprint]_vars

\* ------------------------------------------------------------------ claims
\* Nothing in flight can touch task object o any more: it is not in the queue,
\* not held by the dispatch thread, has no future or monitor, no retry timer
\* asleep or past its test, and is not the task an add_task call still holds.
Settled(o) ==
  /\ ~InQueue(o)
  /\ wl.task # o
  /\ fut[o].st = "none"
  /\ o \notin Asleep
  /\ o \notin local.requeue
  /\ ~Loaded(o)
  /\ ~(caller.pc = "add" /\ caller.task = o)

\* Object n was created from an input whose fingerprint an earlier task carried.
SameFingerprintAsEarlier(n) ==
  /\ task[n].file_hash # 0
  /\ \E o \in 1..(n - 1) : task[o].file_hash = task[n].file_hash

\* C1: whenever no public operation is mid-call, completed_tasks + failed_tasks
\* + cancelled_tasks <= total_tasks.
C1_CountersWithinTotal ==
  caller.pc = "idle" =>
    statistics.completed_tasks + statistics.failed_tasks + statistics.cancelled_tasks
      <= statistics.total_tasks

\* C2: a task that cancel_task or cancel_all marked CANCELLED while its conversion
\* was running stays CANCELLED when the conversion returns: its result is discarded
\* (no result_text stored, completed_tasks not incremented, no retry scheduled).
\* Stated for the steps taken while no public operation is mid-call.
C2_CancelledStaysCancelled ==
  [][\A o \in DOMAIN task :
       (caller.pc = "idle" /\ task[o].status = "CANCELLED" /\ fut[o].st \in {"ok", "fail"})
         => /\ task'[o] = task[o]
            /\ statistics'.completed_tasks = statistics.completed_tasks
            /\ timers' = timers]_vars

\* The edges of the task state machine, cancellation of a task that is not yet
\* terminal included.
StatusEdges ==
  {<<"PENDING", "QUEUED">>, <<"QUEUED", "PROCESSING">>, <<"PROCESSING", "COMPLETED">>,
   <<"PROCESSING", "FAILED">>, <<"PROCESSING", "CANCELLED">>, <<"PROCESSING", "RETRYING">>,
   <<"RETRYING", "QUEUED">>, <<"PENDING", "CANCELLED">>, <<"QUEUED", "CANCELLED">>,
   <<"RETRYING", "CANCELLED">>}

\* C3: every change of a task's status follows an edge of the state machine.
C3_StatusFollowsEdges ==
  [][\A o \in DOMAIN task :
       task'[o].status # task[o].status
         => <<task[o].status, task'[o].status>> \in StatusEdges]_vars

\* Task object a is to be dequeued before b: higher priority, or the same
\* priority and added earlier (objects are numbered in the order of add_task).
Before(a, b) ==
  \/ task[a].priority > task[b].priority
  \/ task[a].priority = task[b].priority /\ a < b

\* C4: the task the dispatch loop dequeues is the queued task of highest priority
\* and, within that priority, the one added first.
C4_DequeueByPriorityThenArrival ==
  [][(wl.pc = "get" /\ wl'.pc = "got")
       => \A i \in 1..Len(task_queue) :
            task_queue[i] # wl'.task => Before(wl'.task, task_queue[i])]_vars

\* What holds of every task object created from a fingerprint already seen.
DuplicateIsInert(n) ==
  /\ task[n].status = "CANCELLED"
  /\ task[n].error_message = ErrDuplicate
  /\ Settled(n)
  /\ conv[n].attempts = 0
  /\ \A id \in TaskIds : tasks[id] # n /\ futures[id] # n
  /\ Cardinality({o \in 1..n : task[o].file_hash = task[n].file_hash
                               /\ task[o].error_message # ErrDuplicate}) = 1

\* The add_task call of this step returned a duplicate.
DuplicateAdded ==
  /\ Len(task') = Len(task) + 1
  /\ task'[Len(task')].file_hash # 0
  /\ \E o \in DOMAIN task : task[o].file_hash = task'[Len(task')].file_hash

\* C5: a task added with the fingerprint of an earlier task is CANCELLED with the
\* error "Duplicate file" and is never registered, queued, dispatched or converted,
\* exactly one task of that fingerprint is admitted, and the add_task call that
\* returns the duplicate changes no existing task, the queue or the task table.
C5_DuplicateIsCancelledAndInert ==
  /\ [](\A n \in Objs : SameFingerprintAsEarlier(n) => DuplicateIsInert(n))
  /\ [][DuplicateAdded =>
          /\ \A o \in DOMAIN task : task'[o] = task[o]
          /\ task_queue' = task_queue
          /\ tasks' = tasks]_vars

\* C5 witness: a duplicate has been returned while the first task is QUEUED.
C5_Witness ==
  \E n \in Objs :
    /\ SameFingerprintAsEarlier(n)
    /\ \E o \in 1..(n - 1) :
         task[o].file_hash = task[n].file_hash /\ task[o].status = "QUEUED"
    /\ Cardinality({o \in Objs : task[o].status = "QUEUED"}) = 1
    /\ Cardinality({o \in Objs : task[o].status = "CANCELLED"}) = 1

\* C6: after any sequence of add_task calls total_tasks is the number of calls
\* made, duplicates included.
C6_TotalCountsEveryAdd ==
  caller.pc = "idle" => statistics.total_tasks = Len(task)

RECURSIVE SumRetries(_)
SumRetries(n) == IF n = 0 THEN 0 ELSE task[n].retry_count + SumRetries(n - 1)

\* C7: a task whose conversion fails k <= max_retries times and then succeeds has,
\* once nothing is in flight for it, status COMPLETED and retry_count = k, and the
\* global retry counter holds the sum of the tasks' retry counts.
C7_RetryThenSucceed ==
  \A o \in Objs :
    (Settled(o) /\ conv[o].plan <= task[o].max_retries)
      => /\ task[o].status = "COMPLETED"
         /\ task[o].retry_count = conv[o].plan
         /\ statistics.retry_count = SumRetries(Len(task))

\* C8: a task whose conversion always fails has, once nothing is in flight for it,
\* status FAILED after max_retries + 1 attempts, retry_count = max_retries and the
\* last failure's message.
C8_RetriesExhausted ==
  \A o \in Objs :
    (Settled(o) /\ conv[o].plan = AlwaysFail)
      => /\ task[o].status = "FAILED"
         /\ task[o].retry_count = task[o].max_retries
         /\ conv[o].attempts = task[o].max_retries + 1
         /\ task[o].error_message = ConvError(task[o].max_retries + 1)

\* C9: while the processor is paused no task becomes PROCESSING.
C9_NoDispatchWhilePaused ==
  [][(flags.is_paused /\ flags'.is_paused)
       => \A o \in DOMAIN task :
            task'[o].status = "PROCESSING" => task[o].status = "PROCESSING"]_vars

\* C10: paused before any dispatch, tasks added, resume() called: every task added
\* in between has, once nothing is in flight for it, status COMPLETED or FAILED.
C10_HeldBackTasksFinish ==
  hist.phase = "resumed" =>
    \A o \in hist.heldBack :
      Settled(o) => task[o].status \in {"COMPLETED", "FAILED"}

\* Every task was created from a file whose content no other task's file has.
DistinctContent ==
  \A a, b \in Objs : a # b => task[a].input_file # task[b].input_file

\* C11: N tasks with distinct content are added at NORMAL priority, the conversion
\* always succeeds and the processor is started and never paused, cancelled or
\* stopped: once nothing is in flight every task is COMPLETED, completed_tasks = N,
\* failed_tasks = 0 and success_rate = 100.
C11_BatchCompletes ==
  (/\ Len(task) = MaxBatchTasks
   /\ DistinctContent
   /\ flags.running
   /\ caller.pc = "idle"
   /\ \A o \in Objs : Settled(o))
    => /\ \A o \in Objs : task[o].status = "COMPLETED"
       /\ statistics.completed_tasks = MaxBatchTasks
       /\ statistics.failed_tasks = 0
       /\ success_rate(statistics) = 100

\* The status of every task object of task table tk.
Statuses(tk) == [o \in DOMAIN tk |-> tk[o].status]

\* C12: from every reachable state, cancel_all() called twice in a row leaves every
\* task with the status that one call leaves it with.
C12_CancelAllIdempotent ==
  LET once == CancelAllValues(Fields)
      twice == CancelAllValues(once)
  IN Statuses(twice.task) = Statuses(once.task)

\* C12 witness: cancel_all() has run with one task converting and another queued,
\* and a second call finds nothing left to cancel.
C12_Witness ==
  /\ flags.is_cancelled
  /\ task_queue = <<>>
  /\ \E a, b \in Objs :
       /\ a # b
       /\ task[a].status = "CANCELLED" /\ fut[a].st = "running"
       /\ task[b].status = "CANCELLED" /\ fut[b].st = "none"
       /\ task[b].error_message = NoError
  /\ CancelAllValues(Fields) = Fields

\* Task object o is in the task table.
Registered(o) == \E id \in TaskIds : tasks[id] = o

Terminal == {"COMPLETED", "FAILED", "CANCELLED"}

\* C13: when cancel_all() returns the queue is empty and no registered task is
\* QUEUED, and while the cancellation flag stays set no task that existed is put
\* (back) on the queue, whatever the dispatch thread and the retry timers do.
C13_CancelAllDrainsQueue ==
  /\ [][(~flags.is_cancelled /\ flags'.is_cancelled)
          => /\ task_queue' = <<>>
             /\ \A o \in DOMAIN task' : Registered(o)' => task'[o].status # "QUEUED"]_vars
  /\ [][(flags.is_cancelled /\ flags'.is_cancelled)
          => \A o \in DOMAIN task : InQueue(o)' => InQueue(o)]_vars

\* C14: once the processor is cancelled, a registered task that nothing in flight
\* can touch any more is in a terminal status.
C14_CancelledTasksEndTerminal ==
  \A o \in Objs :
    (flags.is_cancelled /\ Registered(o) /\ Settled(o)) => task[o].status \in Terminal

\* C15: while the cancellation flag is set no task goes from RETRYING to QUEUED,
\* no task becomes PROCESSING, and the dispatch thread is never left blocked inside
\* its loop.
C15_CancellationIsSticky ==
  /\ [][(flags.is_cancelled /\ flags'.is_cancelled)
          => \A o \in DOMAIN task :
               /\ ~(task[o].status = "RETRYING" /\ task'[o].status = "QUEUED")
               /\ task'[o].status = "PROCESSING" => task[o].status = "PROCESSING"]_vars
  /\ [](flags.is_cancelled => ~Blocked)

\* C16: cancel_task(id) on a registered task that is QUEUED or PROCESSING sets it
\* CANCELLED, adds one to cancelled_tasks and returns True; on an unknown id or a
\* task in a terminal status it returns False and changes no status and no counter.
C16_CancelTaskReturn ==
  caller.pc = "idle" =>
    \A id \in TaskIds :
      LET r == CancelTaskValues(id)
          o == tasks[id]
      IN /\ (o # 0 /\ task[o].status \in {"QUEUED", "PROCESSING"})
              => /\ r.returns
                 /\ r.task[o].status = "CANCELLED"
                 /\ r.statistics.cancelled_tasks = statistics.cancelled_tasks + 1
         /\ (o = 0 \/ task[o].status \in Terminal)
              => /\ ~r.returns
                 /\ Statuses(r.task) = Statuses(task)
                 /\ r.statistics = statistics

\* C17: start() called while the processor is running creates no dispatch thread
\* and no worker pool and leaves the flags and the statistics, start_time
\* included, as they are.
C17_StartWhileRunningIsNoOp ==
  flags.running =>
    StartValues(flags, statistics) =
      [flags |-> flags, statistics |-> statistics, created |-> FALSE]

\* C17 witness: the processor is running with the cancellation flag set, a start
\* time recorded and a task in the queue.
C17_Witness ==
  /\ flags.running
  /\ flags.is_cancelled
  /\ statistics.start_time
  /\ task_queue # <<>>
  /\ wl.pc # "none"

\* C18: once stop() has returned the dispatch thread has left its loop, and while
\* the processor is stopped no task becomes PROCESSING.
C18_StopEndsDispatch ==
  /\ []((caller.pc = "idle" /\ ~flags.running) => wl.pc \in {"none", "exit"})
  /\ [][(~flags.running /\ ~flags'.running)
          => \A o \in DOMAIN task :
               task'[o].status = "PROCESSING" => task[o].status = "PROCESSING"]_vars

\* The events of type t in the history.
EventsOfType(t) ==
  {i \in 1..Len(event_bus.event_history) : event_bus.event_history[i].event_type = t}

\* C19: every registered task that cancel_task or cancel_all left CANCELLED has a
\* task-cancelled event with its task id in the event history.
C19_CancelledIsNotified ==
  caller.pc = "idle" =>
    \A o \in Objs :
      (Registered(o) /\ task[o].status = "CANCELLED")
        => \E i \in EventsOfType(CONVERSION_CANCELLED) :
             event_bus.event_history[i].data.task_id = task[o].task_id

\* The calls subscribers subs are owed for event e.
RECURSIVE Owed(_, _)
Owed(subs, e) ==
  IF subs = <<>> THEN <<>>
  ELSE <<[name |-> Head(subs).name, event |-> e]>> \o Owed(Tail(subs), e)

\* The calls owed for the events of history h: for each event, the subscribers of
\* its type and then the global subscribers, in subscription order.
RECURSIVE OwedAll(_)
OwedAll(h) ==
  IF h = <<>> THEN <<>>
  ELSE Owed(event_bus.subscribers[Head(h).event_type], Head(h))
         \o Owed(event_bus.global_subscribers, Head(h))
         \o OwedAll(Tail(h))

\* C20: no exception of a subscriber leaves emit; every subscriber of the type and
\* every global subscriber is called for every emitted event, those after a
\* raising one included; add_task and the completion handler complete their
\* updates: no task is failed because of a subscriber, and the started and
\* completed events match total_tasks and completed_tasks.
C20_SubscriberErrorsAreCaught ==
  /\ ~event_bus.escaped
  /\ event_bus.received = OwedAll(event_bus.event_history)
  /\ \A o \in Objs : task[o].error_message # ErrSubscriber
  /\ Cardinality(EventsOfType(CONVERSION_STARTED)) = statistics.total_tasks
  /\ Cardinality(EventsOfType(CONVERSION_COMPLETED)) = statistics.completed_tasks

\* C20 witness: a task is COMPLETED and its completed event went to the raising
\* subscriber of the type, the one after it, the raising global subscriber and
\* the one after it.
C20_Witness ==
  \E o \in Objs :
    /\ task[o].status = "COMPLETED"
    /\ \E i \in 1..Len(event_bus.received) :
         /\ i + 3 <= Len(event_bus.received)
         /\ \A k \in 0..3 :
              /\ event_bus.received[i + k].name = k + 1
              /\ event_bus.received[i + k].event = CompletedEvent(o)

\* Task object o was admitted by add_task: it was not returned as a duplicate.
Admitted(o) == task[o].error_message # ErrDuplicate

\* C21: no two tasks created by add_task carry the same task identifier, and every
\* admitted task is what get_task returns for its identifier and is among
\* get_all_tasks().
C21_TaskIdsUnique ==
  /\ \A a, b \in Objs : a # b => task[a].task_id # task[b].task_id
  /\ \A o \in Objs :
       Admitted(o) => (get_task(task[o].task_id) = o /\ o \in get_all_tasks)

\* The paths add_files is to create tasks for: those the filter, if given, lets pass.
Surviving(a) ==
  IF a.file_filter # None THEN filter_files(a.file_filter[1], a.file_paths) ELSE a.file_paths

\* C22: add_files ends by returning, never by raising, and returns one task per
\* surviving path, in input order, with the given priority and with output path
\* output_dir / (stem + ".md") when output_dir is given and none otherwise.
C22_AddFilesReturnsTasks ==
  (call.op = "add_files" /\ caller.pc = "idle")
    => /\ call.raises = None
       /\ call.returns # None
       /\ LET a == call.arguments
              paths == Surviving(a)
              created == call.returns[1]
          IN /\ Len(created) = Len(paths)
             /\ \A i \in 1..Len(paths) :
                  /\ created[i].input_file = paths[i].path
                  /\ created[i].priority = a.priority
                  /\ created[i].output_file =
                       IF a.output_dir = None THEN None
                       ELSE Some(Append(a.output_dir[1],
                                        [stem |-> Stem(Name(paths[i].path)), suffix |-> ".md"]))

\* The file passes every criterion the filter was given, a criterion that is None
\* being passed by every file.
Passes(a, file) ==
  /\ a.extensions # None =>
       \E i \in 1..Len(a.extensions[1]) :
         Lower(a.extensions[1][i]) = Lower(Suffix(Name(file.path)))
  /\ a.min_size # None => file.st_size >= a.min_size[1]
  /\ a.max_size # None => file.st_size <= a.max_size[1]
  /\ a.min_date # None => file.st_mtime >= a.min_date[1]
  /\ a.max_date # None => file.st_mtime <= a.max_date[1]
  /\ a.name_pattern # None => Search(a.name_pattern[1], NameText(file.path))
  /\ a.exclude_paths # None =>
       \A i \in 1..Len(a.exclude_paths[1]) :
         LET ex == Resolve(a.exclude_paths[1][i])
         IN ex # Resolve(file.path) /\ ex \notin Parents(Resolve(file.path))
  /\ a.exclude_patterns # None =>
       \A i \in 1..Len(a.exclude_patterns[1]) :
         ~Search(a.exclude_patterns[1][i], PathText(file.path))

\* C23: for a file that exists, matches returns true iff the file passes every
\* configured criterion, whatever the configured values are, 0 included.
C23_MatchesEveryCriterion ==
  (call.op = "matches" /\ call.returns # None /\ call.file.exists)
    => call.returns[1] = Passes(call.arguments, call.file)

\* The calls of callback cb among the calls the subscribers received.
CallsOf(received, cb) == {i \in 1..Len(received) : received[i].name = cb.name}

\* This step is an emit of an event.
Emitting == Len(event_bus'.event_history) = Len(event_bus.event_history) + 1

\* C24: on an enabled bus an emit of an event of type t calls a callback exactly
\* once if the callback is then subscribed to t or is a global subscriber, and not
\* at all otherwise; subscribing a callback already subscribed raises ValueError
\* and leaves the subscriber lists as they are.
C24_CalledOncePerEmit ==
  /\ [][Emitting =>
          LET t == event_bus'.event_history[Len(event_bus'.event_history)].event_type IN
          \A cb \in Callbacks :
            Cardinality(CallsOf(event_bus'.received, cb))
              - Cardinality(CallsOf(event_bus.received, cb))
              = IF In(cb, event_bus.subscribers[t]) \/ In(cb, event_bus.global_subscribers)
                THEN 1 ELSE 0]_vars
  /\ [](\A t \in BusEventTypes, cb \in Callbacks, g \in BOOLEAN :
          (IF g THEN In(cb, event_bus.global_subscribers)
                ELSE In(cb, event_bus.subscribers[t]))
            => SubscribeValues(event_bus, t, cb, g) =
                 [bus |-> event_bus, raises |-> <<"ValueError">>])

\* C25: as long as no more than StateMaxHistory updates were ever waiting to be
\* undone, can_undo() is true exactly when an update is still to be undone; undo()
\* then returns True and leaves the state equal to the one before the last such
\* update; with nothing left to undo the state equals the initial one, and undo()
\* returns False and changes nothing.
C25_UndoInvertsUpdate ==
  ~hist.overflowed =>
    LET r == undo(state_manager) IN
    /\ can_undo(state_manager) <=> hist.expected # <<>>
    /\ IF hist.expected # <<>>
       THEN r.returns /\ State(r.sm) = hist.expected[Len(hist.expected)]
       ELSE /\ ~r.returns
            /\ r.sm = state_manager
            /\ State(state_manager) = hist.initial

\* C25 witness: StateMaxHistory updates were made and all of them undone: the
\* state is the initial one again and a further undo has returned False.
C25_Witness ==
  /\ hist.updates = StateMaxHistory
  /\ hist.undos = StateMaxHistory
  /\ hist.expected = <<>>
  /\ ~can_undo(state_manager)
  /\ State(state_manager) = hist.initial
  /\ call = [op |-> "undo", returns |-> Some(FALSE)]

\* C26: a task that cancel_task cancelled before it was submitted to a worker
\* (CANCELLED, no future) is never marked PROCESSING, never submitted, and the
\* conversion callback is never called for it.
C26_CancelledBeforeStartNeverRuns ==
  [][\A o \in DOMAIN task :
       (task[o].status = "CANCELLED" /\ fut[o].st = "none")
         => /\ task'[o].status # "PROCESSING"
            /\ fut'[o].st = "none"
            /\ conv'[o].attempts = conv[o].attempts]_vars

\* The task objects in status s.
InStatus(s) == {o \in Objs : task[o].status = s}

\* C27: once every completion handler has run, completed_tasks + failed_tasks is
\* the number of tasks that finished, and the PROCESSING, COMPLETED and FAILED
\* counts are the numbers of tasks in these statuses, whatever the interleaving
\* of the handlers was.
C27_NoUpdateLost ==
  (caller.pc = "idle" /\ \A o \in Objs : Settled(o))
    => /\ statistics.completed_tasks + statistics.failed_tasks
            = Cardinality(InStatus("COMPLETED") \cup InStatus("FAILED"))
       /\ \A s \in {"PROCESSING", "COMPLETED", "FAILED"} :
            statistics.tasks_by_status[s] = Cardinality(InStatus(s))

\* C28: a task whose conversion ran into the monitor's timeout is FAILED only once
\* its retry budget is used up (the processor not being cancelled).
C28_TimeoutIsRetried ==
  \A o \in Objs :
    (task[o].status = "FAILED" /\ task[o].error_message = ErrTimeout /\ ~flags.is_cancelled)
      => task[o].retry_count >= task[o].max_retries

\* The events of type t in the history that carry the task id of object o.
EventsFor(t, o) ==
  {i \in EventsOfType(t) : event_bus.event_history[i].data.task_id = task[o].task_id}

\* C29: a registered task that is FAILED has exactly one task-failed event, with
\* its error text, and a COMPLETED one exactly one task-completed event; a task
\* waiting for its retry has neither.
C29_TerminalReportedOnce ==
  \A o \in Objs :
    Registered(o) =>
      /\ task[o].status = "FAILED" =>
           /\ Cardinality(EventsFor(CONVERSION_FAILED, o)) = 1
           /\ \A i \in EventsFor(CONVERSION_FAILED, o) :
                event_bus.event_history[i].data.error = task[o].error_message
      /\ task[o].status = "COMPLETED" => Cardinality(EventsFor(CONVERSION_COMPLETED, o)) = 1
      /\ task[o].status = "RETRYING" =>
           EventsFor(CONVERSION_FAILED, o) \cup EventsFor(CONVERSION_COMPLETED, o) = {}

\* sum(tasks_by_status.values()) of statistics st.
RECURSIVE SumOver(_, _)
SumOver(tbs, ss) ==
  IF ss = {} THEN 0
  ELSE LET s == CHOOSE x \in ss : TRUE IN tbs[s] + SumOver(tbs, ss \ {s})

SumByStatus(st) == SumOver(st.tasks_by_status, TaskStatus)

\* C30: in every reachable state the per-status counts sum to at most total_tasks,
\* and no step decrements total_tasks.
C30_StatusCountsWithinTotal ==
  /\ [](SumByStatus(statistics) <= statistics.total_tasks)
  /\ [][statistics'.total_tasks >= statistics.total_tasks]_vars

\* No operation is mid-execution: no public call, the dispatch thread holds no
\* popped task, and no monitor or retry-timer thread is between two of its steps.
Quiescent ==
  /\ caller.pc = "idle"
  /\ wl.pc \notin {"got", "mark", "store"}
  /\ local = NoLocal

\* The statuses tasks_by_status is read for.
CountedStatuses == {"QUEUED", "PROCESSING", "RETRYING", "COMPLETED", "FAILED", "CANCELLED"}

\* The registered tasks whose current status is s.
RegisteredIn(s) == {o \in Objs : Registered(o) /\ task[o].status = s}

\* C31: whenever no operation is mid-execution, tasks_by_status[s] is the number
\* of registered tasks whose current status is s, for each of the six statuses.
C31_CountsKeyedByCurrentStatus ==
  Quiescent =>
    \A s \in CountedStatuses :
      statistics.tasks_by_status[s] = Cardinality(RegisteredIn(s))

\* No fingerprint can be computed for the input: no file at the path, or a file
\* whose read raises.
NoFingerprint(file) == ~Exists(file) \/ ~file.readable

C33_MissingCallbackNotAbsorbed ==
  ~conversion_func =>
    \A o \in Objs :
      ~(task[o].status = "FAILED" /\ task[o].error_message = ErrNoConversionFunc)

\* C34: while a requeue_after_delay thread is asleep for a task, the task is
\* RETRYING, is not in the queue and has no work item in the pool, and the delay
\* is 2^retry_count of the count already incremented (2, 4, 8, ...); every change
\* of a task's retry_count adds one to it and to the global retry counter and
\* starts such a thread; a task that was retried is put back on the queue only
\* by its requeue_after_delay thread.
C34_RetryBacksOffExponentially ==
  /\ [](\A t \in timers :
          /\ task[t.task].status = "RETRYING"
          /\ ~InQueue(t.task)
          /\ fut[t.task].st = "none"
          /\ task[t.task].retry_count >= 1
          /\ t.delay = 2 ^ task[t.task].retry_count)
  /\ [][\A o \in DOMAIN task :
          task'[o].retry_count # task[o].retry_count
            => /\ task'[o].retry_count = task[o].retry_count + 1
               /\ statistics'.retry_count = statistics.retry_count + 1
               /\ [task |-> o, delay |-> 2 ^ task'[o].retry_count] \in timers' \ timers]_vars
  /\ [][\A o \in DOMAIN task :
          (InQueue(o)' /\ ~InQueue(o))
            => o \in Asleep \cup local.requeue]_vars

\* C35: completed_tasks <= total_tasks in every state, and success_rate and
\* progress_percentage are 0 for total_tasks = 0 and lie within 0..100.
C35_RatesWithinRange ==
  /\ statistics.completed_tasks <= statistics.total_tasks
  /\ statistics.total_tasks = 0
       => success_rate(statistics) = 0 /\ progress_percentage(statistics) = 0
  /\ success_rate(statistics) \in 0..100
  /\ progress_percentage(statistics) \in 0..100

\* C36: every task adds at most one to cancelled_tasks, whatever cancel_task,
\* cancel_all and stop calls reach it: the counter never exceeds the number of
\* tasks created.
C36_CancelledCountedOnce ==
  statistics.cancelled_tasks <= Len(task)

\* The calls of the conversion callback made for task object o, the one in
\* progress included.
Invocations(o) ==
  conv[o].attempts + IF fut[o].st \in {"running", "lost"} THEN 1 ELSE 0

C38_FingerprintsAreKept ==
  /\ [][duplicate_hashes \subseteq duplicate_hashes']_vars
  /\ [](\A o \in Objs :
          (Admitted(o) /\ task[o].file_hash # 0 /\ ~(caller.pc = "add" /\ caller.task = o))
            => task[o].file_hash \in duplicate_hashes)
  /\ [][(Len(task') = Len(task) + 1 /\ task'[Len(task')].file_hash \in duplicate_hashes)
          => /\ task'[Len(task')].status = "CANCELLED"
             /\ task'[Len(task')].error_message = ErrDuplicate
             /\ duplicate_hashes' = duplicate_hashes
             /\ caller'.pc = "idle"]_vars
  /\ [](\A n \in Objs : \A o \in 1..(n - 1) :
          (task[o].file_hash # 0 /\ task[o].file_hash = task[n].file_hash)
            => ~Admitted(n))

\* C38 witness: the task admitted with a fingerprint is COMPLETED and nothing is
\* in flight for it, and the last task created, of the same fingerprint, was
\* returned as a CANCELLED duplicate.
C38_Witness ==
  /\ caller.pc = "idle"
  /\ Len(task) >= 2
  /\ ~Admitted(Len(task))
  /\ task[Len(task)].status = "CANCELLED"
  /\ \E o \in 1..(Len(task) - 1) :
       /\ Admitted(o)
       /\ task[o].file_hash = task[Len(task)].file_hash
       /\ task[o].status = "COMPLETED"
       /\ Settled(o)
  /\ task[Len(task)].file_hash \in duplicate_hashes

\* cancel_all() was called on the running processor and stop() has not been
\* called since.
CancelledWhileRunning == flags.is_cancelled /\ flags.running

\* C39: after cancel_all() on a running processor and until stop(), the processor
\* stays marked running and the flag stays set, start() changes nothing and
\* creates no dispatch thread, and a task added meanwhile is never dispatched:
\* it has no work item, the callback is never called for it, and it is QUEUED
\* unless a cancellation marks it.  The flag is cleared only by a start() of a
\* stopped processor.
C39_NoDispatchAfterCancelAll ==
  /\ [][CancelledWhileRunning
          => \/ CancelledWhileRunning'
             \/ (~flags'.running /\ caller'.pc = "stop")]_vars
  /\ [](CancelledWhileRunning
          => StartValues(flags, statistics) =
               [flags |-> flags, statistics |-> statistics, created |-> FALSE])
  /\ [](\A o \in hist.late :
          /\ fut[o].st = "none"
          /\ Invocations(o) = 0
          /\ task[o].status \in {"PENDING", "QUEUED", "CANCELLED"}
          /\ wl.task = o => wl.pc = "got")
  /\ [][(flags.is_cancelled /\ ~flags'.is_cancelled)
          => (~flags.running /\ flags'.running)]_vars

\* C39 witness: a task added after cancel_all() on the running processor was
\* never dispatched, and after stop() and start() the flag is clear and a task
\* added then was dispatched and is COMPLETED.
C39_Witness ==
  /\ flags.running
  /\ ~flags.is_cancelled
  /\ \E o \in hist.late :
       /\ task[o].status \in {"QUEUED", "CANCELLED"}
       /\ Invocations(o) = 0
       /\ \E n \in Objs :
            /\ n > o
            /\ n \notin hist.late
            /\ task[n].status = "COMPLETED"

====
